---- MODULE Spec2Model ----
(***************************************************************************)
(* A model of tocaia, a terminal Gopher client (src/tocaia.c): the address *)
(* parser, the menu line parser, the content classifier, the navigation    *)
(* history and the interaction loop with its two views.                    *)
(*                                                                         *)
(* C strings are sequences of one-character strings; no string of the      *)
(* model holds a NUL, so strlen is Len. A pointer to a history node is the *)
(* node's identifier, NULL is 0.                                           *)
(***************************************************************************)
EXTENDS Integers, Sequences, FiniteSets, TLC

VARIABLES
    nav,                 \* the heap of NavigationState nodes: id -> node
    current_nav,         \* AppState.current_nav
    gopher_items,        \* AppState.gopher_items[0 .. total_items-1]
    total_items,         \* AppState.total_items
    selectable_items,    \* AppState.selectable_items
    selected_index,      \* AppState.selected_index
    scroll_offset,       \* AppState.scroll_offset
    text_scroll_line,    \* AppState.text_scroll_line
    total_content_lines, \* AppState.total_content_lines
    is_running,          \* AppState.is_running
    terminal_size,       \* AppState.terminal_size.ws_row
    g_resize_pending,    \* the flag set by the SIGWINCH handler
    tty_rows,            \* the rows the terminal really has (TIOCGWINSZ)
    screen,              \* what the last draw call put on the terminal
    pc,                  \* where the process is
    exit_status,         \* the status the process ended with (-1: running)
    last_event,          \* the input the last step read and the history
                         \* operation it called
    argv1,               \* the address given at launch
    parsed,              \* main's result of parse_gopher_address(argv[1])
    termios              \* the attributes of the terminal: "original" or "raw"

vars == <<nav, current_nav, gopher_items, total_items, selectable_items,
          selected_index, scroll_offset, text_scroll_line, total_content_lines,
          is_running, terminal_size, g_resize_pending, tty_rows, screen, pc,
          exit_status, last_event, argv1, parsed, termios>>

----------------------------------------------------------------------------
(* Program constants.                                                      *)

MAX_HOST_LENGTH == 256
MAX_SELECTOR_LENGTH == 1024
MAX_DISPLAY_LENGTH == 1024
MAX_URL_INPUT_LENGTH == MAX_HOST_LENGTH + MAX_SELECTOR_LENGTH + 10

NULL == 0
EXIT_SUCCESS == 0
EXIT_FAILURE == 1
DEFAULT_PORT == 70
MAX_PORT == 65535
INT_MAX == 32767 * 65536 + 65535

KEY_UP == "A"
KEY_DOWN == "B"
KEY_PGUP == "5"
KEY_PGDN == "6"
KEY_ENTER == "\n"
KEY_CARRIAGE_RETURN == "\r"
KEY_BACKSPACE == "DEL"
KEY_ESC == "ESC"

----------------------------------------------------------------------------
(* Characters and C string functions.                                      *)

Digit == {"0", "1", "2", "3", "4", "5", "6", "7", "8", "9"}

DigitVal(c) ==
    CASE c = "0" -> 0 [] c = "1" -> 1 [] c = "2" -> 2 [] c = "3" -> 3
      [] c = "4" -> 4 [] c = "5" -> 5 [] c = "6" -> 6 [] c = "7" -> 7
      [] c = "8" -> 8 [] c = "9" -> 9

isdigit(c) == c \in Digit

isspace(c) == c \in {" ", "\t", "\n", "\r", "\f"}

Min(a, b) == IF a < b THEN a ELSE b

Max(a, b) == IF a > b THEN a ELSE b

\* strncpy(dst, src, n) followed by dst[n] = '\0': the first n characters.
strncpy(src, n) == SubSeq(src, 1, Min(Len(src), n))

\* strchr: the index of the first c in s, 0 when there is none.
strchr(s, c) ==
    IF \E i \in 1..Len(s) : s[i] = c
    THEN CHOOSE i \in 1..Len(s) : s[i] = c /\ \A j \in 1..(i - 1) : s[j] # c
    ELSE 0

\* strrchr: the index of the last c in s, 0 when there is none.
strrchr(s, c) ==
    IF \E i \in 1..Len(s) : s[i] = c
    THEN CHOOSE i \in 1..Len(s) : s[i] = c /\ \A j \in (i + 1)..Len(s) : s[j] # c
    ELSE 0

\* The texts between the occurrences of the separator sep in text.
Split(text, sep) ==
    LET at == {i \in 1..Len(text) : text[i] = sep}
        n  == Cardinality(at)
        Pos(k) == IF k = 0 THEN 0
                  ELSE IF k = n + 1 THEN Len(text) + 1
                  ELSE CHOOSE p \in at : Cardinality({q \in at : q <= p}) = k
    IN  [k \in 1..(n + 1) |-> SubSeq(text, Pos(k - 1) + 1, Pos(k) - 1)]

\* strncmp(s, p, Len(p)) == 0
HasPrefix(s, p) == Len(s) >= Len(p) /\ SubSeq(s, 1, Len(p)) = p

\* The number of leading characters of s that are whitespace.
LeadingSpaces(s) ==
    Cardinality({i \in 1..Len(s) : \A j \in 1..i : isspace(s[j])})

\* The digits atoi reads from position i on, accumulated as strtol does in a
\* long and then converted to int. The value is kept modulo 2^32 in two
\* 16-bit halves; ovf records that the true value exceeds INT_MAX.
RECURSIVE atoi_acc(_, _, _, _, _)
atoi_acc(s, i, hi, lo, ovf) ==
    IF i > Len(s) \/ ~isdigit(s[i])
    THEN [hi |-> hi, lo |-> lo, ovf |-> ovf]
    ELSE LET lo2 == lo * 10 + DigitVal(s[i])
             hi2 == hi * 10 + (lo2 \div 65536)
         IN  atoi_acc(s, i + 1, hi2 % 65536, lo2 % 65536, ovf \/ hi2 >= 32768)

\* The 32-bit two's complement integer with the given halves.
ToInt32(hi, lo) == IF hi >= 32768 THEN (hi - 65536) * 65536 + lo ELSE hi * 65536 + lo

\* The halves of the negation, modulo 2^32.
NegHalves(hi, lo) ==
    IF lo = 0 THEN [hi |-> (65536 - hi) % 65536, lo |-> 0]
    ELSE [hi |-> 65535 - hi, lo |-> 65536 - lo]

\* atoi(s): the set of values the call can return. Leading whitespace and
\* one sign are skipped, then the digits are read up to the first other
\* character. A value that fits an int is returned; for a value that does
\* not, the behaviour is undefined: a build whose long has 64 bits returns
\* the low 32 bits, one whose long has 32 bits returns INT_MAX (INT_MIN for
\* a negative number).
atoi(s) ==
    LET start == LeadingSpaces(s) + 1
        neg   == start <= Len(s) /\ s[start] = "-"
        sign  == start <= Len(s) /\ s[start] \in {"-", "+"}
        a     == atoi_acc(s, IF sign THEN start + 1 ELSE start, 0, 0, FALSE)
        n     == NegHalves(a.hi, a.lo)
    IN  IF ~a.ovf
        THEN {IF neg THEN 0 - ToInt32(a.hi, a.lo) ELSE ToInt32(a.hi, a.lo)}
        ELSE IF neg
             THEN {ToInt32(n.hi, n.lo), 0 - INT_MAX - 1}
             ELSE {ToInt32(a.hi, a.lo), INT_MAX}

----------------------------------------------------------------------------
(* The address parser.                                                     *)

GOPHER_SCHEME == <<"g", "o", "p", "h", "e", "r", ":", "/", "/">>

\* What parse_gopher_address leaves in its outputs when it returns TRUE.
Parsed(host, port, selector) ==
    [ok |-> TRUE, host |-> host, port |-> port, selector |-> selector]

\* parse_gopher_address returned FALSE: no caller reads the outputs.
InvalidAddress == [ok |-> FALSE, host |-> <<>>, port |-> 0, selector |-> <<>>]

\* The port test at the end of parse_gopher_address.
PortInRange(port) == ~(port <= 0 \/ port > MAX_PORT)

\* The host tests of parse_gopher_address.
HostAccepted(host) ==
    /\ Len(host) # 0
    /\ strchr(host, " ") = 0 /\ strchr(host, "\t") = 0 /\ strchr(host, "\n") = 0
    /\ ~(strchr(host, ".") = 0 /\ ~isdigit(host[1]))

\* parse_gopher_address(address): the set of results the call can have (one
\* result, unless atoi overflows).
parse_gopher_address(address) ==
    IF Len(address) = 0 THEN {InvalidAddress}
    ELSE
    LET temp_address == strncpy(address, MAX_URL_INPUT_LENGTH - 1)
        parse_ptr == IF HasPrefix(temp_address, GOPHER_SCHEME)
                     THEN SubSeq(temp_address, 10, Len(temp_address))
                     ELSE temp_address
        first_slash == strchr(parse_ptr, "/")
        host_port_str == IF first_slash # 0
                         THEN SubSeq(parse_ptr, 1, first_slash - 1)
                         ELSE parse_ptr
        selector_out == IF first_slash # 0
                        THEN strncpy(SubSeq(parse_ptr, first_slash + 1, Len(parse_ptr)),
                                     MAX_SELECTOR_LENGTH - 1)
                        ELSE <<>>
        port_str == strrchr(host_port_str, ":")
        port_text == SubSeq(host_port_str, port_str + 1, Len(host_port_str))
        host == IF port_str # 0
                THEN SubSeq(host_port_str, 1, port_str - 1)
                ELSE host_port_str
        ports == IF port_str # 0 THEN atoi(port_text) ELSE {DEFAULT_PORT}
    IN  IF port_str # 0 /\ Len(port_text) = 0 THEN {InvalidAddress}
        ELSE IF ~HostAccepted(host) THEN {InvalidAddress}
        ELSE {IF PortInRange(port_out)
              THEN Parsed(strncpy(host, MAX_HOST_LENGTH - 1), port_out, selector_out)
              ELSE InvalidAddress : port_out \in ports}

----------------------------------------------------------------------------
(* The content classifier and the menu line parser.                        *)

TAB == "\t"

\* A page_content pointer: NULL, or the body it points to.
NoContent == <<>>

Content(body) == <<body>>

\* calculate_text_lines: the newlines of the content, plus one for a last
\* line that does not end with a newline.
calculate_text_lines(content) ==
    Cardinality({i \in 1..Len(content) : content[i] = "\n"})
        + (IF Len(content) > 0 /\ content[Len(content)] # "\n" THEN 1 ELSE 0)

\* A faulty is_gopher_menu: the tab is looked for in the whole body.
is_gopher_menu_any_tab(selector, page_content) ==
    IF page_content = NoContent THEN FALSE
    ELSE IF Len(selector) > 0 /\ selector[1] \in {"0", "4", "5", "6", "9", "g", "I", "h"}
    THEN FALSE
    ELSE IF Len(selector) = 0 \/ selector[1] = "1" THEN TRUE
    ELSE strchr(page_content[1], TAB) # 0

\* is_gopher_menu, for a node whose page_content is page_content.
is_gopher_menu(selector, page_content) ==
    IF page_content = NoContent THEN FALSE
    ELSE
    LET data == page_content[1]
        first_line_end == strchr(data, "\n")
        first_line == IF first_line_end # 0
                      THEN strncpy(data, Min(first_line_end - 1, MAX_DISPLAY_LENGTH - 1))
                      ELSE strncpy(data, MAX_DISPLAY_LENGTH - 1)
    IN  IF Len(selector) > 0 /\ selector[1] \in {"0", "4", "5", "6", "9", "g", "I", "h"}
        THEN FALSE
        ELSE IF Len(selector) = 0 \/ selector[1] = "1" THEN TRUE
        ELSE strchr(first_line, TAB) # 0

\* trim_whitespace(str): the pointer str is moved past the leading
\* whitespace, and the string is cut after the last character that is not
\* whitespace; the characters before the moved pointer stay in the buffer.
trim_whitespace(str) ==
    IF LeadingSpaces(str) = Len(str) THEN str
    ELSE SubSeq(str, 1, CHOOSE e \in 1..Len(str) :
                            /\ ~isspace(str[e])
                            /\ \A j \in (e + 1)..Len(str) : isspace(str[j]))

\* The fields of a menu line after its type character: the text is cut at
\* each of its first n - 1 tabs.
RECURSIVE tokenize(_, _)
tokenize(s, n) ==
    IF n = 1 \/ strchr(s, TAB) = 0 THEN <<s>>
    ELSE <<SubSeq(s, 1, strchr(s, TAB) - 1)>>
             \o tokenize(SubSeq(s, strchr(s, TAB) + 1, Len(s)), n - 1)

NULL_HOST == <<"n", "u", "l", "l", ".", "h", "o", "s", "t">>
ERROR_HOST == <<"e", "r", "r", "o", "r", ".", "h", "o", "s", "t">>

\* A faulty test: the placeholder hosts are not looked at.
IsSelectable_any_host(type, host) == type \in {"0", "1", "2", "7", "h"}

\* The test that makes an item selectable.
IsSelectable(type, host) ==
    type \in {"0", "1", "2", "7", "h"} /\ host # NULL_HOST /\ host # ERROR_HOST

\* parse_gopher_line returned FALSE.
SkipLine == [ok |-> FALSE]

GopherItem(type, display_string, selector, host, port, is_selectable) ==
    [type |-> type, display_string |-> display_string, selector |-> selector,
     host |-> host, port |-> port, is_selectable |-> is_selectable,
     menu_index |-> 0]

\* parse_gopher_line: the set of results the call can have (one result,
\* unless atoi overflows on the port field).
parse_gopher_line(line0, current_host, current_port) ==
    LET line == IF Len(line0) > 0 /\ line0[Len(line0)] = "\r"
                THEN SubSeq(line0, 1, Len(line0) - 1)
                ELSE line0
    IN  IF Len(line) = 0 \/ line = <<".">> \/ Len(line) < 2 THEN {SkipLine}
        ELSE
        LET type == line[1]
            fields == tokenize(Tail(line), 4)
            display == trim_whitespace(strncpy(fields[1], MAX_DISPLAY_LENGTH - 1))
        IN  IF type = "i" \/ Len(fields) < 3
            THEN {[ok |-> TRUE, item |-> GopherItem(type, display, <<>>, <<>>, 0, FALSE)]}
            ELSE
            LET selector == strncpy(fields[2], MAX_SELECTOR_LENGTH - 1)
                host == strncpy(IF Len(fields[3]) # 0 THEN fields[3] ELSE current_host,
                                MAX_HOST_LENGTH - 1)
                ports == IF Len(fields) = 4 THEN atoi(fields[4]) ELSE {current_port}
            IN  {[ok |-> TRUE,
                  item |-> GopherItem(type, display, selector, host, port,
                                      IsSelectable(type, host))] : port \in ports}

\* A token of strtok is not empty.
NonEmpty(text) == text # <<>>

\* strtok(data, "\n"), called until it returns NULL: the non-empty runs of
\* characters other than the newline.
strtok_lines(data) == SelectSeq(Split(data, "\n"), NonEmpty)

\* A faulty ordinal: the count before the increment.
WithOrdinal_before_increment(item, selectable) ==
    IF item.is_selectable THEN [item EXCEPT !.menu_index = selectable] ELSE item

\* The ordinal process_gopher_response gives an item it appends, selectable
\* being the number of selectable items appended before it.
WithOrdinal(item, selectable) ==
    IF item.is_selectable THEN [item EXCEPT !.menu_index = selectable + 1] ELSE item

\* parse_gopher_line returned TRUE.
ReturnedItem(result) == result.ok

\* A faulty scan: it ends at the first line that gives no item.
scan_lines_until_skip(results) ==
    LET skips == {k \in 1..Len(results) : ~results[k].ok}
        last  == IF skips = {} THEN Len(results)
                 ELSE (CHOOSE k \in skips : \A j \in skips : k <= j) - 1
        kept  == SubSeq(results, 1, last)
        Before(j) == Cardinality({i \in 1..(j - 1) : kept[i].item.is_selectable})
    IN  [items |-> [j \in 1..Len(kept) |-> WithOrdinal(kept[j].item, Before(j))],
         selectable_items |-> Before(Len(kept) + 1)]

\* The loop of process_gopher_response, results being what parse_gopher_line
\* returns for each line in turn: every item returned is appended, a
\* selectable one with the count of selectable items so far as its ordinal.
scan_lines(results) ==
    LET kept == SelectSeq(results, ReturnedItem)
        Before(j) == Cardinality({i \in 1..(j - 1) : kept[i].item.is_selectable})
    IN  [items |-> [j \in 1..Len(kept) |-> WithOrdinal(kept[j].item, Before(j))],
         selectable_items |-> Before(Len(kept) + 1)]

\* process_gopher_response: the item lists the call can build from data
\* (one list, unless atoi overflows on a port field).
process_gopher_response(data, current_host, current_port) ==
    LET lines == strtok_lines(data)
        outcomes == [k \in 1..Len(lines) |->
                        parse_gopher_line(lines[k], current_host, current_port)]
        open == {k \in 1..Len(lines) : Cardinality(outcomes[k]) > 1}
        picks == {c \in [open -> UNION {outcomes[k] : k \in open}] :
                     \A k \in open : c[k] \in outcomes[k]}
    IN  {scan_lines([k \in 1..Len(lines) |->
                        IF k \in open THEN c[k] ELSE CHOOSE r \in outcomes[k] : TRUE])
            : c \in picks}

----------------------------------------------------------------------------
(* Bounds and inputs.                                                      *)

\* The longest history chain a navigation may build, where the history is
\* explored in depth (SpecNav).
MaxNodes == 3

\* The longest history chain a navigation may build, where the terminal is
\* resized and the server answers with any body (Spec).
ViewNodes == 1

\* The tallest terminal.
MaxRows == 6

\* The heights the terminal takes: one that leaves no row for the content,
\* and one that leaves some.
Heights == {4, MaxRows}

NodeIds == 1..(MaxNodes + 1)

HOST_AB == <<"a", ".", "b">>

\* A menu: an informational line, a directory, a text file, a line with no
\* fields, a search item and the end-of-listing marker.
MenuBody ==
    <<"i", "H", "i", TAB, TAB, "x", TAB, "1", "\r", "\n",
      "1", "D", TAB, "1", "/", "d", TAB, "a", ".", "b", TAB, "7", "0", "\r", "\n",
      "0", "T", TAB, "0", "/", "t", TAB, "a", ".", "b", TAB, "7", "0", "\r", "\n",
      "i", "M", "\r", "\n",
      "7", "F", TAB, "7", "/", "s", TAB, TAB, "7", "0", "\r", "\n",
      ".", "\r", "\n">>

\* A text of five lines.
TextBody == <<"a", "\n", "b", "\n", "c", "\n", "d", "\n", "e", "\n">>

\* A text of one line that does not end with a newline.
ShortBody == <<"o", "k">>

\* The bodies a server answers with.
Bodies == {MenuBody, TextBody, ShortBody}

\* A menu and a text: a body for each of the two views.
ViewBodies == {MenuBody, TextBody}

\* The body the server answers with where the history is explored in depth.
NavBodies == {MenuBody}

\* The addresses the program is launched with: a menu, and a text file.
LaunchArgs == {HOST_AB, <<"a", ".", "b", "/", "0", "/", "t">>}

\* The address the program is launched with where the history is explored
\* in depth.
NavLaunchArgs == {HOST_AB}

\* What the user types in the search prompt.
SearchTyped ==
    {<<"y", KEY_BACKSPACE, "x", KEY_CARRIAGE_RETURN>>,
     <<"x", KEY_ESC>>,
     <<KEY_ENTER>>}

\* What the user types in one round of the open prompt.
OpenTyped ==
    {<<"a", ".", "b", "/", "0", "/", "t", KEY_ENTER>>,
     <<"b", "a", "d", KEY_ENTER>>,
     <<KEY_ESC>>}

\* The third byte of the escape sequences that scroll or move the selection.
ScrollKeys == {KEY_UP, KEY_DOWN, KEY_PGUP, KEY_PGDN}

\* The third byte of the escape sequences the user sends.
ArrowKeys == {KEY_UP, KEY_DOWN, KEY_PGUP, KEY_PGDN, "C"}

isprint(c) == c \notin {"\t", "\n", "\r", "\f", "BS", KEY_ESC, KEY_BACKSPACE}

----------------------------------------------------------------------------
(* The navigation history.                                                 *)

\* The node create_nav_state initializes.
create_nav_state(host, port, selector) ==
    [host |-> strncpy(host, MAX_HOST_LENGTH - 1),
     port |-> port,
     selector |-> strncpy(selector, MAX_SELECTOR_LENGTH - 1),
     page_content |-> NoContent,
     prev |-> NULL,
     next |-> NULL]

\* malloc returns a block that is not in use: the model takes the lowest.
malloc(heap) ==
    CHOOSE n \in NodeIds :
        n \notin DOMAIN heap /\ \A m \in 1..(n - 1) : m \in DOMAIN heap

\* The nodes from n on, following next.
RECURSIVE ForwardNodes(_, _)
ForwardNodes(heap, n) ==
    IF n = NULL THEN {} ELSE {n} \cup ForwardNodes(heap, heap[n].next)

\* A faulty free_forward_history: only the node right after current_state
\* is freed.
free_forward_history_one_node(heap, current_state) ==
    IF current_state = NULL \/ heap[current_state].next = NULL THEN heap
    ELSE LET kept == [n \in DOMAIN heap \ {heap[current_state].next} |-> heap[n]]
         IN  [kept EXCEPT ![current_state].next = NULL]

\* free_forward_history: the heap with the nodes after current_state freed.
free_forward_history(heap, current_state) ==
    IF current_state = NULL THEN heap
    ELSE LET freed == ForwardNodes(heap, heap[current_state].next)
             kept  == [n \in DOMAIN heap \ freed |-> heap[n]]
         IN  [kept EXCEPT ![current_state].next = NULL]

\* What navigate_to does to the history.
NavigateHistory(heap, current, host, port, selector) ==
    LET new_state == malloc(heap)
        created   == [n \in DOMAIN heap \cup {new_state} |->
                         IF n = new_state
                         THEN create_nav_state(host, port, selector)
                         ELSE heap[n]]
    IN  IF current # NULL
        THEN [nav |-> [free_forward_history(created, current) EXCEPT
                          ![current].next = new_state,
                          ![new_state].prev = current],
              current_nav |-> new_state]
        ELSE [nav |-> created, current_nav |-> new_state]

\* The history from its head to its tail, through the current node.
RECURSIVE BackwardChain(_, _)
BackwardChain(heap, n) ==
    IF n = NULL THEN <<>> ELSE Append(BackwardChain(heap, heap[n].prev), n)

RECURSIVE ForwardChain(_, _)
ForwardChain(heap, n) ==
    IF n = NULL THEN <<>> ELSE <<n>> \o ForwardChain(heap, heap[n].next)

Chain(heap, current) ==
    IF current = NULL THEN <<>>
    ELSE BackwardChain(heap, current) \o ForwardChain(heap, heap[current].next)

\* The position of the current node in the chain.
Position(heap, current) == Len(BackwardChain(heap, current))

\* A faulty navigate_to: the new node's prev link is not set.
navigate_to_no_prev(host, port, selector) ==
    LET r == NavigateHistory(nav, current_nav, host, port, selector)
    IN  /\ nav' = [r.nav EXCEPT ![r.current_nav].prev = NULL]
        /\ current_nav' = r.current_nav
        /\ selected_index' = 1
        /\ scroll_offset' = 0
        /\ text_scroll_line' = 0

navigate_to(host, port, selector) ==
    LET r == NavigateHistory(nav, current_nav, host, port, selector)
    IN  /\ nav' = r.nav
        /\ current_nav' = r.current_nav
        /\ selected_index' = 1
        /\ scroll_offset' = 0
        /\ text_scroll_line' = 0

\* A faulty navigate_back: the view state is reset at the head too.
navigate_back_resets_at_head ==
    /\ current_nav' = IF current_nav # NULL /\ nav[current_nav].prev # NULL
                      THEN nav[current_nav].prev
                      ELSE current_nav
    /\ selected_index' = 1
    /\ scroll_offset' = 0
    /\ text_scroll_line' = 0
    /\ UNCHANGED nav

navigate_back ==
    IF current_nav # NULL /\ nav[current_nav].prev # NULL
    THEN /\ current_nav' = nav[current_nav].prev
         /\ selected_index' = 1
         /\ scroll_offset' = 0
         /\ text_scroll_line' = 0
         /\ UNCHANGED nav
    ELSE UNCHANGED <<nav, current_nav, selected_index, scroll_offset, text_scroll_line>>

\* A faulty navigate_forward: the menu scroll offset is not reset.
navigate_forward_keeps_offset ==
    IF current_nav # NULL /\ nav[current_nav].next # NULL
    THEN /\ current_nav' = nav[current_nav].next
         /\ selected_index' = 1
         /\ text_scroll_line' = 0
         /\ UNCHANGED <<nav, scroll_offset>>
    ELSE UNCHANGED <<nav, current_nav, selected_index, scroll_offset, text_scroll_line>>

navigate_forward ==
    IF current_nav # NULL /\ nav[current_nav].next # NULL
    THEN /\ current_nav' = nav[current_nav].next
         /\ selected_index' = 1
         /\ scroll_offset' = 0
         /\ text_scroll_line' = 0
         /\ UNCHANGED nav
    ELSE UNCHANGED <<nav, current_nav, selected_index, scroll_offset, text_scroll_line>>

\* A faulty reload: the body stays.
InvalidateCurrentContent_keeps_body ==
    UNCHANGED <<nav, current_nav, selected_index, scroll_offset, text_scroll_line>>

\* A faulty reload: the body of every node is freed.
InvalidateCurrentContent_every_node ==
    /\ nav' = [n \in DOMAIN nav |-> [nav[n] EXCEPT !.page_content = NoContent]]
    /\ UNCHANGED <<current_nav, selected_index, scroll_offset, text_scroll_line>>

\* The reload of both views: the current node's body is freed.
InvalidateCurrentContent ==
    /\ nav' = [nav EXCEPT ![current_nav].page_content = NoContent]
    /\ UNCHANGED <<current_nav, selected_index, scroll_offset, text_scroll_line>>

\* The model stops a navigation that would make the chain longer than
\* max_nodes.
CanNavigate(max_nodes) == Position(nav, current_nav) < max_nodes

----------------------------------------------------------------------------
(* The view state.                                                         *)

\* viewable_rows of the menu view (handle_menu_navigation, draw_gopher_menu).
MenuViewableRows(ws_row) == IF ws_row > 4 THEN ws_row - 4 ELSE 0

\* viewable_rows of the text view (handle_text_viewer_interaction).
TextViewableRows(ws_row) == IF ws_row > 4 THEN ws_row - 4 ELSE 1

\* A faulty selection step: Up and Down stop at the ends instead of
\* wrapping.
NextSelectedIndex_no_wrap(input, selected, selectable, viewable_rows) ==
    IF input = KEY_UP
    THEN (IF selected > 1 THEN selected - 1 ELSE selected)
    ELSE IF input = KEY_DOWN
    THEN (IF selected < selectable THEN selected + 1 ELSE selected)
    ELSE IF input = KEY_PGUP
    THEN (IF selected - viewable_rows < 1 THEN 1 ELSE selected - viewable_rows)
    ELSE IF input = KEY_PGDN
    THEN (IF selected + viewable_rows > selectable
          THEN selectable
          ELSE selected + viewable_rows)
    ELSE selected

\* A faulty selection step: PageDown is not clamped to the last ordinal.
NextSelectedIndex_no_clamp(input, selected, selectable, viewable_rows) ==
    IF input = KEY_UP
    THEN (IF selected > 1 THEN selected - 1 ELSE selectable)
    ELSE IF input = KEY_DOWN
    THEN (IF selected < selectable THEN selected + 1 ELSE 1)
    ELSE IF input = KEY_PGUP
    THEN (IF selected - viewable_rows < 1 THEN 1 ELSE selected - viewable_rows)
    ELSE IF input = KEY_PGDN
    THEN selected + viewable_rows
    ELSE selected

\* The selected ordinal after an arrow or page key of the menu view.
NextSelectedIndex(input, selected, selectable, viewable_rows) ==
    IF input = KEY_UP
    THEN (IF selected > 1 THEN selected - 1 ELSE selectable)
    ELSE IF input = KEY_DOWN
    THEN (IF selected < selectable THEN selected + 1 ELSE 1)
    ELSE IF input = KEY_PGUP
    THEN (IF selected - viewable_rows < 1 THEN 1 ELSE selected - viewable_rows)
    ELSE IF input = KEY_PGDN
    THEN (IF selected + viewable_rows > selectable
          THEN selectable
          ELSE selected + viewable_rows)
    ELSE selected

\* The array index of the selectable item with the given ordinal, counting
\* the selectable items from the start of the array; -1 when there is none.
SelectedArrayIdx(items, selected) ==
    LET hits == {i \in 0..(Len(items) - 1) :
                    /\ items[i + 1].is_selectable
                    /\ Cardinality({j \in 0..i : items[j + 1].is_selectable}) = selected}
    IN  IF hits = {} THEN 0 - 1 ELSE CHOOSE i \in hits : TRUE

\* A faulty scroll offset: it follows the selection up and never down.
NextScrollOffset_up_only(selected_array_idx, offset, viewable_rows) ==
    IF selected_array_idx # 0 - 1 /\ selected_array_idx < offset
    THEN selected_array_idx
    ELSE offset

\* The scroll offset that keeps the selected item in view.
NextScrollOffset(selected_array_idx, offset, viewable_rows) ==
    IF selected_array_idx # 0 - 1
    THEN (IF selected_array_idx < offset
          THEN selected_array_idx
          ELSE IF selected_array_idx >= offset + viewable_rows
          THEN selected_array_idx - viewable_rows + 1
          ELSE offset)
    ELSE offset

handle_menu_navigation(input) ==
    LET viewable_rows == MenuViewableRows(terminal_size)
        selected == NextSelectedIndex(input, selected_index, selectable_items,
                                      viewable_rows)
    IN  IF selectable_items = 0
        THEN UNCHANGED <<selected_index, scroll_offset>>
        ELSE /\ selected_index' = selected
             /\ scroll_offset' =
                    NextScrollOffset(SelectedArrayIdx(gopher_items, selected),
                                     scroll_offset, viewable_rows)

\* A faulty clamp: the scroll line may reach the last line of the text.
ClampScrollLine_to_last_line(line, total_lines, viewable_rows) ==
    LET upper == IF line > total_lines THEN total_lines ELSE line
    IN  IF upper < 0 THEN 0 ELSE upper

\* The clamp at the top of the text view's loop.
ClampScrollLine(line, total_lines, viewable_rows) ==
    LET upper == IF line > total_lines - viewable_rows
                 THEN total_lines - viewable_rows
                 ELSE line
    IN  IF upper < 0 THEN 0 ELSE upper

\* The scroll line after an arrow or page key of the text view.
NextScrollLine(key, line, viewable_rows) ==
    IF key = KEY_UP /\ line > 0 THEN line - 1
    ELSE IF key = KEY_DOWN THEN line + 1
    ELSE IF key = KEY_PGUP
    THEN (IF line - viewable_rows < 0 THEN 0 ELSE line - viewable_rows)
    ELSE IF key = KEY_PGDN THEN line + viewable_rows
    ELSE line

\* What draw_gopher_menu puts on the terminal.
draw_gopher_menu(offset, ws_row, total, selected) ==
    [view |-> "menu", scroll |-> offset, ws_row |-> ws_row, total |-> total,
     selected |-> selected, last_row |-> ""]

\* What draw_text_viewer puts on the terminal.
draw_text_viewer(line, ws_row, content) ==
    [view |-> "text", scroll |-> line, ws_row |-> ws_row,
     total |-> calculate_text_lines(content), selected |-> 0, last_row |-> ""]

\* The terminal before the first draw.
BlankScreen ==
    [view |-> "none", scroll |-> 0, ws_row |-> 0, total |-> 0, selected |-> 0,
     last_row |-> ""]

\* The terminal restore_terminal leaves: its original attributes back, the
\* screen cleared and the cursor visible.
restore_terminal == [BlankScreen EXCEPT !.view = "restored"]

\* What a prompt prints on the last row of the terminal.
print_last_row(scr, text) == [scr EXCEPT !.last_row = text]

\* clear_line on the last row.
clear_line(scr) == print_last_row(scr, "")

\* The messages of the open prompt.
OpenUrlPrompt == "Open URL: "
OpenUrlError == "Error: Invalid Gopher address format. Press any key."

\* The characters a prompt's read loop leaves in its buffer, reading keys
\* from position k on: the end of keys is a read that returns no byte.
RECURSIVE prompt_read(_, _, _, _, _)
prompt_read(keys, k, buffer, limit, cancel) ==
    IF k > Len(keys) THEN buffer
    ELSE IF keys[k] \in {KEY_ENTER, KEY_CARRIAGE_RETURN} THEN buffer
    ELSE IF keys[k] \in {KEY_BACKSPACE, "BS"}
    THEN prompt_read(keys, k + 1,
                     IF Len(buffer) > 0 THEN SubSeq(buffer, 1, Len(buffer) - 1) ELSE buffer,
                     limit, cancel)
    ELSE IF keys[k] \in cancel THEN <<>>
    ELSE IF isprint(keys[k]) /\ Len(buffer) < limit
    THEN prompt_read(keys, k + 1, Append(buffer, keys[k]), limit, cancel)
    ELSE prompt_read(keys, k + 1, buffer, limit, cancel)

\* The input a step read, the history operation it called and the
\* operation's arguments: the location for navigate_to, the node that was
\* current for the others.
Event(input, call, args) == [input |-> input, call |-> call, args |-> args]

\* No input read, no history operation called.
NoEvent == Event(<<>>, "none", <<>>)

Escape(key) == <<KEY_ESC, "[", key>>

----------------------------------------------------------------------------
(* The process: main, run_main_loop and the two views.                     *)
(* pc is "main" before main parses its argument, "outer" at the top of     *)
(* run_main_loop's loop, "outer_clear" between its TIOCGWINSZ and the      *)
(* clearing of the flag, "outer_fetch" after them, "menu" and "text" at    *)
(* the top of a view's loop, "menu_clear" and "text_clear" between a       *)
(* view's redraw after a resize and the clearing of the flag, "menu_read"  *)
(* and "text_read" at a view's select, "open" at the open prompt, and      *)
(* "exited" when the process has ended.                                    *)

hist_vars == <<nav, current_nav, selected_index, scroll_offset, text_scroll_line>>

menu_vars == <<gopher_items, total_items, selectable_items>>

tty_vars == <<terminal_size, g_resize_pending, tty_rows>>

\* What main sets up and the exit undoes.
launch_vars == <<argv1, parsed, termios>>

\* The state main leaves when it calls run_main_loop, for each launch
\* address that parses.
InitWith(args, heights) ==
    \E a \in args, rows \in heights :
        \E r \in parse_gopher_address(a) :
            /\ r.ok
            /\ argv1 = a
            /\ parsed = r
            /\ LET h == NavigateHistory(<<>>, NULL, r.host, r.port, r.selector)
               IN  nav = h.nav /\ current_nav = h.current_nav
            /\ gopher_items = <<>>
            /\ total_items = 0
            /\ selectable_items = 0
            /\ selected_index = 1
            /\ scroll_offset = 0
            /\ text_scroll_line = 0
            /\ total_content_lines = 0
            /\ is_running = TRUE
            /\ terminal_size = rows
            /\ tty_rows = rows
            /\ g_resize_pending = 0
            /\ screen = BlankScreen
            /\ pc = "outer"
            /\ exit_status = 0 - 1
            /\ last_event = NoEvent
            /\ termios = "raw"

\* handle_resize_signal, run when the terminal changes its size.
handle_resize_signal ==
    /\ pc \notin {"main", "exited"}
    /\ \E rows \in Heights : tty_rows' = rows
    /\ g_resize_pending' = 1
    /\ last_event' = NoEvent
    /\ UNCHANGED <<hist_vars, menu_vars, total_content_lines, is_running,
                   terminal_size, screen, pc, exit_status, launch_vars>>

\* A faulty SIGINT handler: the process ends with the terminal as it is.
handle_sigint_signal_skips_restore ==
    /\ pc \notin {"main", "exited", "blocked"}
    /\ pc' = "exited"
    /\ exit_status' = EXIT_SUCCESS
    /\ last_event' = NoEvent
    /\ UNCHANGED <<hist_vars, menu_vars, total_content_lines, is_running,
                   tty_vars, screen, launch_vars>>

\* handle_sigint_signal, run when SIGINT is delivered: restore_terminal and
\* then exit. exit is not safe to call from a handler: it ends the process,
\* or it waits for ever on a lock the interrupted code holds.
handle_sigint_signal ==
    /\ pc \notin {"main", "exited", "blocked"}
    /\ termios' = "original"
    /\ screen' = restore_terminal
    /\ \/ pc' = "exited" /\ exit_status' = EXIT_SUCCESS
       \/ pc' = "blocked" /\ UNCHANGED exit_status
    /\ last_event' = NoEvent
    /\ UNCHANGED <<hist_vars, menu_vars, total_content_lines, is_running,
                   tty_vars, argv1, parsed>>

\* The top of run_main_loop's loop: the loop ends, main returns and the exit
\* handler restores the terminal, or the flag is tested.
RunMainLoop ==
    /\ pc = "outer"
    /\ last_event' = NoEvent
    /\ IF ~is_running
       THEN /\ pc' = "exited"
            /\ exit_status' = EXIT_SUCCESS
            /\ screen' = restore_terminal
            /\ termios' = "original"
            /\ UNCHANGED terminal_size
       ELSE IF g_resize_pending # 0
       THEN /\ terminal_size' = tty_rows
            /\ pc' = "outer_clear"
            /\ UNCHANGED <<exit_status, screen, termios>>
       ELSE /\ pc' = "outer_fetch"
            /\ UNCHANGED <<terminal_size, exit_status, screen, termios>>
    /\ UNCHANGED <<hist_vars, menu_vars, total_content_lines, is_running,
                   g_resize_pending, tty_rows, argv1, parsed>>

\* g_resize_pending = 0 in run_main_loop.
RunMainLoopClear ==
    /\ pc = "outer_clear"
    /\ g_resize_pending' = 0
    /\ pc' = "outer_fetch"
    /\ last_event' = NoEvent
    /\ UNCHANGED <<hist_vars, menu_vars, total_content_lines, is_running,
                   terminal_size, tty_rows, screen, exit_status, launch_vars>>

\* fetch_current_content, when the server answers.
FetchContent(bodies) ==
    /\ pc = "outer_fetch"
    /\ nav[current_nav].page_content = NoContent
    /\ \E body \in bodies :
           nav' = [nav EXCEPT ![current_nav].page_content = Content(body)]
    /\ last_event' = NoEvent
    /\ UNCHANGED <<current_nav, selected_index, scroll_offset, text_scroll_line,
                   menu_vars, total_content_lines, is_running, tty_vars, screen,
                   pc, exit_status, launch_vars>>

\* A faulty fetch_current_content: a failure returns to run_main_loop,
\* which fetches again.
FetchFailure_retries ==
    /\ pc = "outer_fetch"
    /\ nav[current_nav].page_content = NoContent
    /\ pc' = "outer"
    /\ last_event' = NoEvent
    /\ UNCHANGED <<hist_vars, menu_vars, total_content_lines, is_running,
                   tty_vars, screen, exit_status, launch_vars>>

\* fetch_current_content, when the connection or the transfer fails: die,
\* and the exit handler restores the terminal.
FetchFailure ==
    /\ pc = "outer_fetch"
    /\ nav[current_nav].page_content = NoContent
    /\ pc' = "exited"
    /\ exit_status' = EXIT_FAILURE
    /\ screen' = restore_terminal
    /\ termios' = "original"
    /\ last_event' = NoEvent
    /\ UNCHANGED <<hist_vars, menu_vars, total_content_lines, is_running,
                   tty_vars, argv1, parsed>>

\* run_main_loop classifies the body and enters a view, which draws it.
EnterView ==
    /\ pc = "outer_fetch"
    /\ nav[current_nav].page_content # NoContent
    /\ LET node == nav[current_nav]
           data == node.page_content[1]
       IN  IF is_gopher_menu(node.selector, node.page_content)
           THEN \E r \in process_gopher_response(data, node.host, node.port) :
                    /\ gopher_items' = r.items
                    /\ total_items' = Len(r.items)
                    /\ selectable_items' = r.selectable_items
                    /\ selected_index' = 1
                    /\ screen' = draw_gopher_menu(scroll_offset, terminal_size,
                                                  Len(r.items), 1)
                    /\ pc' = "menu"
                    /\ UNCHANGED total_content_lines
           ELSE /\ total_content_lines' = calculate_text_lines(data)
                /\ screen' = draw_text_viewer(text_scroll_line, terminal_size, data)
                /\ pc' = "text"
                /\ UNCHANGED <<menu_vars, selected_index>>
    /\ last_event' = NoEvent
    /\ UNCHANGED <<nav, current_nav, scroll_offset, text_scroll_line, is_running,
                   tty_vars, exit_status, launch_vars>>

\* A faulty loop top: the key is read although a resize is pending.
MenuLoop_reads_first ==
    /\ pc = "menu"
    /\ pc' = "menu_read"
    /\ last_event' = NoEvent
    /\ UNCHANGED <<hist_vars, menu_vars, total_content_lines, is_running,
                   tty_vars, screen, exit_status, launch_vars>>

\* The top of the menu view's loop: a pending resize is served, or the view
\* goes on to its select.
MenuLoop ==
    /\ pc = "menu"
    /\ IF g_resize_pending # 0
       THEN /\ terminal_size' = tty_rows
            /\ screen' = draw_gopher_menu(scroll_offset, tty_rows, total_items,
                                          selected_index)
            /\ pc' = "menu_clear"
       ELSE /\ pc' = "menu_read"
            /\ UNCHANGED <<terminal_size, screen>>
    /\ last_event' = NoEvent
    /\ UNCHANGED <<hist_vars, menu_vars, total_content_lines, is_running,
                   g_resize_pending, tty_rows, exit_status, launch_vars>>

\* g_resize_pending = 0; continue, in the menu view.
MenuLoopClear ==
    /\ pc = "menu_clear"
    /\ g_resize_pending' = 0
    /\ pc' = "menu"
    /\ last_event' = NoEvent
    /\ UNCHANGED <<hist_vars, menu_vars, total_content_lines, is_running,
                   terminal_size, tty_rows, screen, exit_status, launch_vars>>

\* The select of the menu view times out, or the read returns no key.
MenuIdle ==
    /\ pc = "menu_read"
    /\ pc' = "menu"
    /\ last_event' = NoEvent
    /\ UNCHANGED <<hist_vars, menu_vars, total_content_lines, is_running,
                   tty_vars, screen, exit_status, launch_vars>>

\* A three-byte escape sequence in the menu view.
MenuArrow ==
    /\ pc = "menu_read"
    /\ \E key \in ArrowKeys :
           /\ handle_menu_navigation(key)
           /\ last_event' = Event(Escape(key), "none", <<>>)
    /\ screen' = draw_gopher_menu(scroll_offset', terminal_size, total_items,
                                  selected_index')
    /\ pc' = "menu"
    /\ UNCHANGED <<nav, current_nav, text_scroll_line, menu_vars,
                   total_content_lines, is_running, tty_vars, exit_status,
                   launch_vars>>

\* A faulty choice of the item Enter acts on: the item at the selected
\* position of the whole list.
SelectedItems_by_position ==
    {gopher_items[i] : i \in {j \in 1..total_items : j = selected_index}}

\* The items handle_menu_action's loop stops at: the first selectable item
\* whose ordinal is the selected one.
SelectedItems ==
    LET hits == {i \in 1..total_items :
                    /\ gopher_items[i].is_selectable
                    /\ gopher_items[i].menu_index = selected_index}
    IN  {gopher_items[i] : i \in {j \in hits : \A k \in hits : j <= k}}

\* The message of the search prompt.
SearchQueryTooLong == "Error: Search query is too long."

\* handle_search_prompt, the user typing keys.
handle_search_prompt(item, keys, max_nodes) ==
    LET query == prompt_read(keys, 1, <<>>, MAX_SELECTOR_LENGTH - 1, {KEY_ESC, "q"})
    IN  IF Len(query) > 0
        THEN IF Len(item.selector) + Len(query) + 2 < MAX_SELECTOR_LENGTH * 2 + 2
             THEN /\ CanNavigate(max_nodes)
                  /\ navigate_to(item.host, item.port, item.selector \o <<TAB>> \o query)
                  /\ last_event' = Event(<<KEY_ENTER>> \o keys, "navigate_to",
                                          <<item.host, item.port,
                                            item.selector \o <<TAB>> \o query>>)
                  /\ screen' = clear_line(screen)
             ELSE /\ UNCHANGED hist_vars
                  /\ last_event' = Event(<<KEY_ENTER>> \o keys, "none", <<>>)
                  /\ screen' = print_last_row(clear_line(screen), SearchQueryTooLong)
        ELSE /\ UNCHANGED hist_vars
             /\ last_event' = Event(<<KEY_ENTER>> \o keys, "none", <<>>)
             /\ screen' = clear_line(screen)

\* Enter or Return in the menu view, the user typing one of typed in the
\* search prompt.
handle_menu_action_enter(max_nodes, typed) ==
    /\ pc = "menu_read"
    /\ IF SelectedItems = {}
       THEN /\ UNCHANGED <<hist_vars, screen>>
            /\ last_event' = Event(<<KEY_ENTER>>, "none", <<>>)
       ELSE \E selected \in SelectedItems :
                IF selected.type = "7"
                THEN \E keys \in typed :
                         handle_search_prompt(selected, keys, max_nodes)
                ELSE /\ CanNavigate(max_nodes)
                     /\ navigate_to(selected.host, selected.port, selected.selector)
                     /\ last_event' = Event(<<KEY_ENTER>>, "navigate_to",
                                             <<selected.host, selected.port,
                                               selected.selector>>)
                     /\ UNCHANGED screen
    /\ pc' = "outer"
    /\ UNCHANGED <<menu_vars, total_content_lines, is_running, tty_vars,
                   exit_status, launch_vars>>

\* Enter or Return in the menu view.
MenuEnter(max_nodes) == handle_menu_action_enter(max_nodes, SearchTyped)

\* A faulty 'b': the view goes on with its loop after navigate_back.
KeyBack_stays_in_view(view) ==
    /\ pc = view
    /\ navigate_back
    /\ last_event' = Event(<<"b">>, "navigate_back", <<current_nav>>)
    /\ pc' = IF view = "menu_read" THEN "menu" ELSE "text"
    /\ UNCHANGED <<menu_vars, total_content_lines, is_running, tty_vars, screen,
                   exit_status, launch_vars>>

\* 'b' or Backspace in a view.
KeyBack(view) ==
    /\ pc = view
    /\ navigate_back
    /\ last_event' = Event(<<"b">>, "navigate_back", <<current_nav>>)
    /\ pc' = "outer"
    /\ UNCHANGED <<menu_vars, total_content_lines, is_running, tty_vars, screen,
                   exit_status, launch_vars>>

\* 'f' in a view.
KeyForward(view) ==
    /\ pc = view
    /\ navigate_forward
    /\ last_event' = Event(<<"f">>, "navigate_forward", <<current_nav>>)
    /\ pc' = "outer"
    /\ UNCHANGED <<menu_vars, total_content_lines, is_running, tty_vars, screen,
                   exit_status, launch_vars>>

\* A faulty 'r': the view goes on with its loop after the body is freed.
KeyReload_stays_in_view(view) ==
    /\ pc = view
    /\ InvalidateCurrentContent
    /\ last_event' = Event(<<"r">>, "reload", <<current_nav>>)
    /\ pc' = IF view = "menu_read" THEN "menu" ELSE "text"
    /\ UNCHANGED <<menu_vars, total_content_lines, is_running, tty_vars, screen,
                   exit_status, launch_vars>>

\* 'r' in a view.
KeyReload(view) ==
    /\ pc = view
    /\ InvalidateCurrentContent
    /\ last_event' = Event(<<"r">>, "reload", <<current_nav>>)
    /\ pc' = "outer"
    /\ UNCHANGED <<menu_vars, total_content_lines, is_running, tty_vars, screen,
                   exit_status, launch_vars>>

\* 'o' in a view: handle_open_prompt starts.
KeyOpen(view) ==
    /\ pc = view
    /\ pc' = "open"
    /\ last_event' = Event(<<"o">>, "none", <<>>)
    /\ UNCHANGED <<hist_vars, menu_vars, total_content_lines, is_running,
                   tty_vars, screen, exit_status, launch_vars>>

\* A faulty 'q': the view returns to run_main_loop, which carries on.
KeyQuit_keeps_running(view) ==
    /\ pc = view
    /\ pc' = "outer"
    /\ last_event' = Event(<<"q">>, "none", <<>>)
    /\ UNCHANGED <<hist_vars, menu_vars, total_content_lines, is_running,
                   tty_vars, screen, exit_status, launch_vars>>

\* 'q' in a view.
KeyQuit(view) ==
    /\ pc = view
    /\ is_running' = FALSE
    /\ pc' = "outer"
    /\ last_event' = Event(<<"q">>, "none", <<>>)
    /\ UNCHANGED <<hist_vars, menu_vars, total_content_lines, tty_vars, screen,
                   exit_status, launch_vars>>

\* What show_about_screen puts on the terminal.
AboutScreen == [view |-> "about", scroll |-> 0, ws_row |-> terminal_size,
                total |-> 0, selected |-> 0, last_row |-> ""]

\* 'a' in the menu view: the about screen, a key, and back to run_main_loop.
MenuAbout ==
    /\ pc = "menu_read"
    /\ screen' = AboutScreen
    /\ pc' = "outer"
    /\ last_event' = Event(<<"a">>, "none", <<>>)
    /\ UNCHANGED <<hist_vars, menu_vars, total_content_lines, is_running,
                   tty_vars, exit_status, launch_vars>>

\* A byte the menu view binds to no action.
MenuOtherKey ==
    /\ pc = "menu_read"
    /\ pc' = "outer"
    /\ last_event' = Event(<<"~">>, "none", <<>>)
    /\ UNCHANGED <<hist_vars, menu_vars, total_content_lines, is_running,
                   tty_vars, screen, exit_status, launch_vars>>

\* A faulty open prompt: an address that does not parse ends the prompt.
OpenPrompt_returns_on_error(max_nodes) ==
    /\ pc = "open"
    /\ \E keys \in OpenTyped :
           LET url_input == prompt_read(keys, 1, <<>>, MAX_URL_INPUT_LENGTH - 1,
                                        {KEY_ESC})
           IN  IF Len(url_input) = 0
               THEN /\ pc' = "outer"
                    /\ screen' = clear_line(screen)
                    /\ last_event' = Event(keys, "none", <<>>)
                    /\ UNCHANGED hist_vars
               ELSE \E r \in parse_gopher_address(url_input) :
                        IF r.ok
                        THEN /\ CanNavigate(max_nodes)
                             /\ navigate_to(r.host, r.port, r.selector)
                             /\ pc' = "outer"
                             /\ screen' = print_last_row(screen, OpenUrlPrompt)
                             /\ last_event' = Event(keys, "navigate_to",
                                                     <<r.host, r.port, r.selector>>)
                        ELSE /\ pc' = "outer"
                             /\ screen' = clear_line(screen)
                             /\ last_event' = Event(keys, "none", <<>>)
                             /\ UNCHANGED hist_vars
    /\ UNCHANGED <<menu_vars, total_content_lines, is_running, tty_vars,
                   exit_status, launch_vars>>

\* One round of handle_open_prompt, the user typing keys.
OpenPrompt(max_nodes) ==
    /\ pc = "open"
    /\ \E keys \in OpenTyped :
           LET url_input == prompt_read(keys, 1, <<>>, MAX_URL_INPUT_LENGTH - 1,
                                        {KEY_ESC})
           IN  IF Len(url_input) = 0
               THEN /\ pc' = "outer"
                    /\ screen' = clear_line(screen)
                    /\ last_event' = Event(keys, "none", <<>>)
                    /\ UNCHANGED hist_vars
               ELSE \E r \in parse_gopher_address(url_input) :
                        IF r.ok
                        THEN /\ CanNavigate(max_nodes)
                             /\ navigate_to(r.host, r.port, r.selector)
                             /\ pc' = "outer"
                             /\ screen' = print_last_row(screen, OpenUrlPrompt)
                             /\ last_event' = Event(keys, "navigate_to",
                                                     <<r.host, r.port, r.selector>>)
                        ELSE /\ pc' = "open"
                             /\ screen' = print_last_row(screen, OpenUrlError)
                             /\ last_event' = Event(keys, "none", <<>>)
                             /\ UNCHANGED hist_vars
    /\ UNCHANGED <<menu_vars, total_content_lines, is_running, tty_vars,
                   exit_status, launch_vars>>

\* The top of the text view's loop: the lines are counted and the scroll
\* line clamped, then a pending resize is served or the view goes on to its
\* select.
TextLoop ==
    /\ pc = "text"
    /\ LET data == nav[current_nav].page_content[1]
           viewable_rows == TextViewableRows(terminal_size)
           line == ClampScrollLine(text_scroll_line, calculate_text_lines(data),
                                   viewable_rows)
       IN  /\ total_content_lines' = calculate_text_lines(data)
           /\ text_scroll_line' = line
           /\ IF g_resize_pending # 0
              THEN /\ terminal_size' = tty_rows
                   /\ screen' = draw_text_viewer(line, tty_rows, data)
                   /\ pc' = "text_clear"
              ELSE /\ pc' = "text_read"
                   /\ UNCHANGED <<terminal_size, screen>>
    /\ last_event' = NoEvent
    /\ UNCHANGED <<nav, current_nav, selected_index, scroll_offset, menu_vars,
                   is_running, g_resize_pending, tty_rows, exit_status, launch_vars>>

\* g_resize_pending = 0; continue, in the text view.
TextLoopClear ==
    /\ pc = "text_clear"
    /\ g_resize_pending' = 0
    /\ pc' = "text"
    /\ last_event' = NoEvent
    /\ UNCHANGED <<hist_vars, menu_vars, total_content_lines, is_running,
                   terminal_size, tty_rows, screen, exit_status, launch_vars>>

\* The select of the text view times out, or the read returns no key.
TextIdle ==
    /\ pc = "text_read"
    /\ pc' = "text"
    /\ last_event' = NoEvent
    /\ UNCHANGED <<hist_vars, menu_vars, total_content_lines, is_running,
                   tty_vars, screen, exit_status, launch_vars>>

\* A three-byte escape sequence in the text view.
TextArrow ==
    /\ pc = "text_read"
    /\ \E key \in ArrowKeys :
           /\ text_scroll_line' = NextScrollLine(key, text_scroll_line,
                                                 TextViewableRows(terminal_size))
           /\ last_event' = Event(Escape(key), "none", <<>>)
    /\ screen' = draw_text_viewer(text_scroll_line', terminal_size,
                                  nav[current_nav].page_content[1])
    /\ pc' = "text"
    /\ UNCHANGED <<nav, current_nav, selected_index, scroll_offset, menu_vars,
                   total_content_lines, is_running, tty_vars, exit_status,
                   launch_vars>>

\* 'a' in the text view: the about screen, a key, and the text drawn again.
TextAbout ==
    /\ pc = "text_read"
    /\ screen' = draw_text_viewer(text_scroll_line, terminal_size,
                                  nav[current_nav].page_content[1])
    /\ pc' = "text"
    /\ last_event' = Event(<<"a">>, "none", <<>>)
    /\ UNCHANGED <<hist_vars, menu_vars, total_content_lines, is_running,
                   tty_vars, exit_status, launch_vars>>

\* A byte the text view binds to no action.
TextOtherKey ==
    /\ pc = "text_read"
    /\ pc' = "outer"
    /\ last_event' = Event(<<"~">>, "none", <<>>)
    /\ UNCHANGED <<hist_vars, menu_vars, total_content_lines, is_running,
                   tty_vars, screen, exit_status, launch_vars>>

\* The steps of a view that does not depend on the environment's bounds.
ViewStep ==
    \/ MenuLoop
    \/ MenuIdle
    \/ MenuArrow
    \/ KeyBack("menu_read")
    \/ KeyForward("menu_read")
    \/ KeyReload("menu_read")
    \/ KeyOpen("menu_read")
    \/ KeyQuit("menu_read")
    \/ MenuAbout
    \/ MenuOtherKey
    \/ TextLoop
    \/ TextIdle
    \/ TextArrow
    \/ KeyBack("text_read")
    \/ KeyForward("text_read")
    \/ KeyReload("text_read")
    \/ KeyOpen("text_read")
    \/ KeyQuit("text_read")
    \/ TextAbout
    \/ TextOtherKey

\* The program with a terminal that is resized at any moment and a server
\* that answers with any body.
Init == InitWith(LaunchArgs, Heights)

Next ==
    \/ handle_resize_signal
    \/ RunMainLoop
    \/ RunMainLoopClear
    \/ FetchContent(Bodies)
    \/ FetchFailure
    \/ EnterView
    \/ MenuLoopClear
    \/ TextLoopClear
    \/ MenuEnter(ViewNodes)
    \/ OpenPrompt(ViewNodes)
    \/ ViewStep

Spec == Init /\ [][Next]_vars

\* The loops alone: the program fetches the launch address and stays in the
\* view of its body, the user pressing arrow keys or none, while the
\* terminal is resized at any moment.
InitLive == InitWith(LaunchArgs, Heights)

\* The steps of the loops that test the flag, fetch, and serve the keys.
PollStep ==
    \/ RunMainLoop
    \/ RunMainLoopClear
    \/ FetchContent(ViewBodies)
    \/ MenuLoop
    \/ MenuLoopClear
    \/ MenuIdle
    \/ MenuArrow
    \/ TextLoop
    \/ TextLoopClear
    \/ TextIdle
    \/ TextArrow

NextLive ==
    \/ handle_resize_signal
    \/ EnterView
    \/ PollStep

\* run_main_loop has a body to classify: EnterView is its next step.
ViewPending ==
    /\ pc = "outer_fetch"
    /\ nav[current_nav].page_content # NoContent

\* The process is scheduled and the select of a view times out after
\* 100 ms, so the program takes its next step as long as it has one: a
\* loop's step, or the entry of a view, which is the one step that ends
\* ViewPending.
SpecLive ==
    InitLive /\ [][NextLive]_vars /\ WF_vars(PollStep) /\ []<>~ViewPending

\* The program with a terminal that keeps its size, and a history that
\* grows to MaxNodes nodes.
InitNav == InitWith(NavLaunchArgs, {MaxRows})

NextNav ==
    \/ RunMainLoop
    \/ FetchContent(NavBodies)
    \/ FetchFailure
    \/ EnterView
    \/ MenuEnter(MaxNodes)
    \/ OpenPrompt(MaxNodes)
    \/ ViewStep

SpecNav == InitNav /\ [][NextNav]_vars

----------------------------------------------------------------------------
(* The launch: main, from its argument to run_main_loop or to the exit.    *)

\* n copies of the character c.
Rep(c, n) == [i \in 1..n |-> c]

DigitChars == <<"0", "1", "2", "3", "4", "5", "6", "7", "8", "9">>

\* The decimal text of a natural number.
RECURSIVE Itoa(_)
Itoa(n) ==
    IF n < 10 THEN <<DigitChars[n + 1]>>
    ELSE Itoa(n \div 10) \o <<DigitChars[(n % 10) + 1]>>

\* The parts of an address text after the host.
PortPart(port) == <<":">> \o Itoa(port)

SelectorPart(selector) == <<"/">> \o selector

\* The address text [gopher://]host[:port][/selector]; a part left out is
\* the empty text.
Compose(scheme, host, port_part, selector_part) ==
    (IF scheme THEN GOPHER_SCHEME ELSE <<>>) \o host \o port_part \o selector_part

\* Hosts, ports and selectors of well-formed addresses, the longest ones
\* included.
AddrHosts ==
    {HOST_AB, <<"1">>, <<"7", "x">>, <<"a", ".">> \o Rep("b", MAX_HOST_LENGTH - 3)}

AddrPorts == {1, DEFAULT_PORT, 7070, MAX_PORT}

AddrSelectors ==
    {<<>>, <<"s">>, <<"0", "/", "a", ":", "b">>, Rep("s", MAX_SELECTOR_LENGTH - 1)}

WellFormedArgs ==
    {Compose(scheme, h, pp, sp) :
        scheme \in BOOLEAN, h \in AddrHosts,
        pp \in {PortPart(p) : p \in AddrPorts} \cup {<<>>},
        sp \in {SelectorPart(sel) : sel \in AddrSelectors} \cup {<<>>}}

\* Arguments that are not well-formed addresses, and the options.
OtherArgs ==
    {<<>>,
     GOPHER_SCHEME,
     <<":", "7", "0">>,
     <<"/", "s">>,
     <<"a", " ", "b", ".", "c">>,
     <<"a", ".", "b", "\r", "c">>,
     <<"a", "\t", ".", "b">>,
     <<"h", "o", "s", "t">>,
     <<"h", "o", "s", "t", ":", "7", "0">>,
     <<"a", ".", "b", ":", "0">>,
     <<"a", ".", "b", ":", "0", "0">>,
     <<"a", ".", "b", ":", "6", "5", "5", "3", "6">>,
     <<"a", ".", "b", ":", "9", "9", "9", "9", "9", "9">>,
     <<"a", ".", "b", ":", "2", "1", "4", "7", "4", "8", "3", "6", "4", "8">>,
     <<"a", ".", "b", ":", "4", "2", "9", "4", "9", "6", "7", "3", "6", "6">>,
     <<"a", ".", "b", ":">>,
     <<"a", ".", "b", ":", "/", "s">>,
     <<"a", ".", "b", ":", "7", "0", "a", "b", "c">>,
     <<"a", ".", "b", ":", "a", "b", "c">>,
     <<"a", ".", "b", ":", " ", "7", "0">>,
     <<"a", ".", "b", ":", "+", "7", "0">>,
     <<"a", ".", "b", ":", "-", "7", "0">>,
     <<"a", ":", "b", ":", "7", "0">>,
     <<"-", "h">>,
     <<"-", "-", "h", "e", "l", "p">>,
     <<"-", "v">>,
     <<"-", "-", "v", "e", "r", "s", "i", "o", "n">>}

AddrArgs == WellFormedArgs \cup OtherArgs

\* The arguments main answers with the help or the version text.
OptionArgs ==
    {<<"-", "h">>, <<"-", "-", "h", "e", "l", "p">>,
     <<"-", "v">>, <<"-", "-", "v", "e", "r", "s", "i", "o", "n">>}

\* main, called with one argument, up to its call of run_main_loop: the
\* options end the process with EXIT_SUCCESS, an address that does not parse
\* ends it through die, and an address that parses becomes the first node of
\* the history.
Main ==
    /\ pc = "main"
    /\ IF argv1 \in OptionArgs
       THEN /\ pc' = "exited"
            /\ exit_status' = EXIT_SUCCESS
            /\ UNCHANGED <<hist_vars, is_running, terminal_size, parsed, termios>>
       ELSE \E r \in parse_gopher_address(argv1) :
                /\ parsed' = r
                /\ IF ~r.ok
                   THEN /\ pc' = "exited"
                        /\ exit_status' = EXIT_FAILURE
                        /\ UNCHANGED <<hist_vars, is_running, terminal_size, termios>>
                   ELSE /\ termios' = "raw"
                        /\ is_running' = TRUE
                        /\ terminal_size' = tty_rows
                        /\ navigate_to(r.host, r.port, r.selector)
                        /\ pc' = "outer"
                        /\ UNCHANGED exit_status
    /\ last_event' = NoEvent
    /\ UNCHANGED <<menu_vars, total_content_lines, g_resize_pending, tty_rows,
                   screen, argv1>>

\* The process at the start of main, for each argument.
InitAddr ==
    /\ argv1 \in AddrArgs
    /\ parsed = InvalidAddress
    /\ nav = <<>>
    /\ current_nav = NULL
    /\ gopher_items = <<>>
    /\ total_items = 0
    /\ selectable_items = 0
    /\ selected_index = 0
    /\ scroll_offset = 0
    /\ text_scroll_line = 0
    /\ total_content_lines = 0
    /\ is_running = FALSE
    /\ terminal_size = 0
    /\ tty_rows = MaxRows
    /\ g_resize_pending = 0
    /\ screen = BlankScreen
    /\ pc = "main"
    /\ exit_status = 0 - 1
    /\ last_event = NoEvent
    /\ termios = "original"

NextAddr == Main

SpecAddr == InitAddr /\ [][NextAddr]_vars

----------------------------------------------------------------------------
(* The classifier and the menu parser at work: run_main_loop with a body   *)
(* just fetched for the current node.                                      *)

CRLF == <<"\r", "\n">>

\* The menu lines the bodies are made of, without their line ends.
ParseLines ==
    {<<"i", "I", "n", "f", "o", " ", "t", "e", "x", "t", TAB, TAB, TAB>>,
     <<"i", " ", " ", "L", "e", "a", "d">>,
     <<"i", " ", " ", " ">>,
     <<"1", "D", "e", "a", "d", TAB, "/", TAB, "n", "u", "l", "l", ".", "h", "o", "s", "t", TAB, "7", "0">>,
     <<"h", "W", TAB, "U", "R", "L", ":", "x", TAB, "e", "r", "r", "o", "r", ".", "h", "o", "s", "t", TAB, "7", "0">>,
     <<"1", "D", TAB, "1", "/", "d", TAB, "a", ".", "b", TAB, "7", "0">>,
     <<"0", "T", TAB, "0", "/", "t", TAB, TAB, "7", "0">>,
     <<"7", "F", TAB, "7", "/", "s", TAB, "c", ".", "d">>,
     <<"2", "C", " ", TAB, "c", TAB, "a", ".", "b", TAB, "7", "0">>,
     <<"3", "E", TAB, "e", TAB, "a", ".", "b", TAB, "7", "0">>,
     <<"1", "X", TAB, "s", "e", "l">>,
     <<"1", "Y">>,
     <<".">>,
     <<"x">>,
     <<>>}

\* n copies of the text s, one after the other.
RepeatSeq(s, n) == [i \in 1..(n * Len(s)) |-> s[((i - 1) % Len(s)) + 1]]

\* The first capacity of the item array of process_gopher_response.
InitialCapacity == 50

\* A menu of more items than the item array holds at first.
ManyItems ==
    RepeatSeq(<<"1", "D", TAB, "1", "/", "d", TAB, "a", ".", "b", TAB, "7", "0">> \o CRLF,
              InitialCapacity + 1)

\* Bodies that are not made of whole lines ending with CR LF: the empty
\* body, a last line with no line end, lines ending with LF alone and empty
\* lines between them, a tab after the first line only, and first lines
\* with their first tab at bytes 1023 and 1024; and a menu that starts with
\* three informational lines.
SpecialBodies ==
    {<<>>,
     <<"i", "A", TAB, TAB, TAB, "\r", "\n", "i", "B", TAB, TAB, TAB, "\r", "\n",
       "i", "C", TAB, TAB, TAB, "\r", "\n",
       "1", "D", TAB, "1", "/", "d", TAB, "a", ".", "b", TAB, "7", "0", "\r", "\n">>,
     <<"a", "b">>,
     <<"1", "D", TAB, "1", "/", "d", TAB, "a", ".", "b", TAB, "7", "0", "\n", "\n",
       "\n", ".", "\n", "0", "T", TAB, "0", "/", "t", TAB, TAB, "7", "0">>,
     <<"a", "b", "\n", TAB, "c", "\n">>,
     Rep("a", MAX_DISPLAY_LENGTH - 2) \o <<TAB>>,
     Rep("a", MAX_DISPLAY_LENGTH - 2) \o <<TAB, "\n", "b">>,
     Rep("a", MAX_DISPLAY_LENGTH - 1) \o <<TAB>>,
     Rep("a", MAX_DISPLAY_LENGTH - 1) \o <<TAB, "\n", "b">>,
     ManyItems}

\* The bodies a server answers with: one line, two lines, and the special
\* ones.
ParseBodies ==
    {l \o CRLF : l \in ParseLines}
        \cup {l1 \o CRLF \o l2 \o CRLF : l1, l2 \in ParseLines}
        \cup SpecialBodies

\* The selectors of the current node: none, and the types that are and are
\* not decided by the selector alone.
ParseSelectors ==
    {<<>>, <<"1", "/", "d">>, <<"0", "/", "t">>, <<"4">>, <<"5">>, <<"6">>, <<"9">>,
     <<"g">>, <<"I">>, <<"h">>, <<"7", "/", "s">>, <<"/", "x">>}

\* The hosts of the current node.
ParseHosts == {HOST_AB, NULL_HOST}

\* run_main_loop after fetch_current_content has stored a body in the
\* current node, the only node of the history.
InitParse ==
    \E host \in ParseHosts, selector \in ParseSelectors, body \in ParseBodies :
        /\ argv1 = Compose(FALSE, host, <<>>, SelectorPart(selector))
        /\ parsed = Parsed(host, DEFAULT_PORT, selector)
        /\ nav = <<[create_nav_state(host, DEFAULT_PORT, selector)
                        EXCEPT !.page_content = Content(body)]>>
        /\ current_nav = 1
        /\ gopher_items = <<>>
        /\ total_items = 0
        /\ selectable_items = 0
        /\ selected_index = 1
        /\ scroll_offset = 0
        /\ text_scroll_line = 0
        /\ total_content_lines = 0
        /\ is_running = TRUE
        /\ terminal_size = MaxRows
        /\ tty_rows = MaxRows
        /\ g_resize_pending = 0
        /\ screen = BlankScreen
        /\ pc = "outer_fetch"
        /\ exit_status = 0 - 1
        /\ last_event = NoEvent
        /\ termios = "raw"

NextParse == EnterView

SpecParse == InitParse /\ [][NextParse]_vars

----------------------------------------------------------------------------
(* The navigation history: claims C1 to C4, checked under SpecNav.         *)

\* The chain from the head, at most fuel nodes of it.
RECURSIVE Walk(_, _, _)
Walk(heap, n, fuel) ==
    IF n = NULL \/ fuel = 0 THEN <<>>
    ELSE <<n>> \o Walk(heap, heap[n].next, fuel - 1)

\* The links of every node.
Links(heap) == [n \in DOMAIN heap |-> <<heap[n].prev, heap[n].next>>]

\* C1: a NavigateTo(X) issued while the current node is the k-th node of
\* the chain leaves the first k nodes, unchanged and in the same order,
\* followed by one new node for X, which is current and is the tail; the
\* nodes that were after the k-th are gone.
C1_NavigateToPrunesForward ==
    [][last_event'.call = "navigate_to" =>
        LET k      == Position(nav, current_nav)
            before == Chain(nav, current_nav)
            after  == Chain(nav', current_nav')
            x      == last_event'.args
        IN  /\ Len(after) = k + 1
            /\ SubSeq(after, 1, k) = SubSeq(before, 1, k)
            /\ \A i \in 1..(k - 1) : nav'[after[i]] = nav[before[i]]
            /\ [nav'[after[k]] EXCEPT !.next = NULL]
                   = [nav[before[k]] EXCEPT !.next = NULL]
            /\ current_nav' = after[k + 1]
            /\ current_nav' \notin DOMAIN nav
            /\ nav'[current_nav'].next = NULL
            /\ nav'[current_nav'].host = x[1]
            /\ nav'[current_nav'].port = x[2]
            /\ nav'[current_nav'].selector = x[3]
            /\ nav'[current_nav'].page_content = NoContent
            /\ DOMAIN nav' = {after[i] : i \in 1..(k + 1)}
            /\ \A i \in (k + 1)..Len(before) : before[i] \notin DOMAIN nav'
    ]_vars

\* C1 witness: the chain [A, C] left by NavigateTo(A), NavigateTo(B), Back,
\* NavigateTo(C): C is current, B's node is freed.
C1_Witness ==
    /\ last_event.call = "navigate_to"
    /\ Chain(nav, current_nav) = <<1, 3>>
    /\ current_nav = 3
    /\ DOMAIN nav = {1, 3}

\* The history is one acyclic doubly-linked chain through the current node.
WellFormedHistory ==
    LET nodes == DOMAIN nav
        heads == {n \in nodes : nav[n].prev = NULL}
        tails == {n \in nodes : nav[n].next = NULL}
    IN  /\ current_nav \in nodes
        /\ Cardinality(heads) = 1
        /\ Cardinality(tails) = 1
        /\ \A n \in nodes :
               nav[n].next # NULL =>
                   nav[n].next \in nodes /\ nav[nav[n].next].prev = n
        /\ \A h \in heads :
               LET w == Walk(nav, h, Cardinality(nodes))
               IN  /\ Len(w) = Cardinality(nodes)
                   /\ {w[i] : i \in 1..Len(w)} = nodes
                   /\ nav[w[Len(w)]].next = NULL

\* C2: in every state the history is a single acyclic doubly-linked chain
\* with one head and one tail that holds the current node, and only
\* NavigateTo changes the set of nodes or their links.
C2_SingleChain ==
    /\ []WellFormedHistory
    /\ [][last_event'.call # "navigate_to" => Links(nav') = Links(nav)]_vars

\* C2 witness: a chain of three nodes with the current node in the middle,
\* reached by Back.
C2_Witness ==
    /\ Cardinality(DOMAIN nav) = 3
    /\ last_event.call = "navigate_back"
    /\ nav[current_nav].prev # NULL
    /\ nav[current_nav].next # NULL

\* C3: Back at the head and Forward at the tail change neither the chain,
\* nor the current node, nor the selected ordinal, nor the menu scroll
\* offset, nor the text scroll line.
C3_BackForwardNoOp ==
    [][(\/ last_event'.call = "navigate_back" /\ nav[current_nav].prev = NULL
        \/ last_event'.call = "navigate_forward" /\ nav[current_nav].next = NULL)
       => UNCHANGED <<nav, current_nav, selected_index, scroll_offset,
                      text_scroll_line>>
    ]_vars

\* C3 witness: Back was pressed at the head of the chain with the third
\* item selected and the menu scrolled.
C3_Witness ==
    /\ last_event.call = "navigate_back"
    /\ last_event.args = <<current_nav>>
    /\ nav[current_nav].prev = NULL
    /\ selected_index = 3
    /\ scroll_offset > 0

\* C4: after every NavigateTo, every Back from a node that has a
\* predecessor and every Forward from a node that has a successor, the view
\* state is (1, 0, 0).
C4_NavigationResetsView ==
    [][(\/ last_event'.call = "navigate_to"
        \/ last_event'.call = "navigate_back" /\ nav[current_nav].prev # NULL
        \/ last_event'.call = "navigate_forward" /\ nav[current_nav].next # NULL)
       => selected_index' = 1 /\ scroll_offset' = 0 /\ text_scroll_line' = 0
    ]_vars

\* C4 witness: Forward moved the current node to its successor.
C4_Witness ==
    /\ last_event.call = "navigate_forward"
    /\ last_event.args # <<current_nav>>
    /\ nav[current_nav].prev = last_event.args[1]
    /\ selected_index = 1 /\ scroll_offset = 0 /\ text_scroll_line = 0

----------------------------------------------------------------------------
(* The view state: claims C5 to C7, checked under Spec.                    *)

\* The escape sequence a step of the menu view has just read, if any.
MenuKey(key) == pc = "menu_read" /\ last_event'.input = Escape(key)

\* C5: in the menu view with N >= 1 selectable items Up moves the selected
\* ordinal from s to s - 1 when s > 1 and from 1 to N, and Down moves it
\* from s to s + 1 when s < N and from N to 1; with N = 0 the arrow and
\* page keys change neither the selection nor the scroll offset.
C5_SelectionWraps ==
    [][LET N == selectable_items
           s == selected_index
       IN  /\ N >= 1 /\ MenuKey(KEY_UP) =>
                  selected_index' = IF s > 1 THEN s - 1 ELSE N
           /\ N >= 1 /\ MenuKey(KEY_DOWN) =>
                  selected_index' = IF s < N THEN s + 1 ELSE 1
           /\ N = 0 /\ (\E key \in ScrollKeys :
                            MenuKey(key)) =>
                  UNCHANGED <<selected_index, scroll_offset>>
    ]_vars

\* C5 witness: with three selectable items, Up at ordinal 1 has selected
\* ordinal 3.
C5_Witness ==
    /\ last_event.input = Escape(KEY_UP)
    /\ screen.view = "menu"
    /\ selectable_items = 3
    /\ selected_index = 3
    /\ scroll_offset > 0

\* The states of the menu view.
InMenuView == pc \in {"menu", "menu_clear", "menu_read"}

\* C6: in the menu view with N >= 1 selectable items the selected ordinal
\* stays within [1, N] whatever keys and resizes happen, at any terminal
\* height; PageUp and PageDown change it by exactly max(rows - 4, 0),
\* unless that leaves [1, N], and then it becomes 1 or N.
C6_SelectionInRange ==
    /\ [](InMenuView /\ selectable_items >= 1 =>
              selected_index \in 1..selectable_items)
    /\ [][LET N == selectable_items
              s == selected_index
              viewable_rows == Max(terminal_size - 4, 0)
          IN  /\ N >= 1 /\ MenuKey(KEY_PGUP) =>
                     selected_index' = IF s - viewable_rows < 1
                                       THEN 1
                                       ELSE s - viewable_rows
              /\ N >= 1 /\ MenuKey(KEY_PGDN) =>
                     selected_index' = IF s + viewable_rows > N
                                       THEN N
                                       ELSE s + viewable_rows
         ]_vars

\* C6 witness: PageDown has moved the selection to the last of three
\* ordinals while the terminal has been given another height.
C6_Witness ==
    /\ last_event.input = Escape(KEY_PGDN)
    /\ screen.view = "menu"
    /\ selectable_items = 3
    /\ selected_index = 3
    /\ terminal_size = MaxRows
    /\ tty_rows # MaxRows

\* C7: at every render of the text view the text scroll line lies in
\* [0, max(total_lines - viewable_rows, 0)], with viewable_rows =
\* max(rows - 4, 1).
C7_RenderedScrollLineClamped ==
    screen.view = "text" =>
        screen.scroll \in 0..Max(screen.total - Max(screen.ws_row - 4, 1), 0)

----------------------------------------------------------------------------
(* The address parser: claims C8 to C10, checked under SpecAddr.           *)

\* main has parsed its argument.
AddressParsed == pc # "main" /\ argv1 \notin OptionArgs

\* C8: for every host h, every port p in 1..65535 and every selector s of
\* at most 1023 bytes, "gopher://h:p/s" and "h:p/s" both parse to
\* (h, p, s); without ":p" the port is 70 and without "/s" the selector is
\* empty.
C8_AddressRoundTrip ==
    AddressParsed =>
        \A scheme \in BOOLEAN, h \in AddrHosts, p \in AddrPorts,
           sel \in AddrSelectors :
            /\ argv1 = Compose(scheme, h, PortPart(p), SelectorPart(sel)) =>
                   parsed = Parsed(h, p, sel)
            /\ argv1 = Compose(scheme, h, <<>>, SelectorPart(sel)) =>
                   parsed = Parsed(h, DEFAULT_PORT, sel)
            /\ argv1 = Compose(scheme, h, PortPart(p), <<>>) =>
                   parsed = Parsed(h, p, <<>>)
            /\ argv1 = Compose(scheme, h, <<>>, <<>>) =>
                   parsed = Parsed(h, DEFAULT_PORT, <<>>)

\* The host:port part of an address text: the text without the scheme, up
\* to its first '/'.
HostPortPart(address) ==
    LET rest == IF HasPrefix(address, GOPHER_SCHEME)
                THEN SubSeq(address, Len(GOPHER_SCHEME) + 1, Len(address))
                ELSE address
        slashes == {i \in 1..Len(rest) : rest[i] = "/"}
    IN  IF slashes = {} THEN rest
        ELSE SubSeq(rest, 1, (CHOOSE i \in slashes : \A j \in slashes : i <= j) - 1)

\* The positions of the ':' characters of a text.
Colons(text) == {i \in 1..Len(text) : text[i] = ":"}

LastColon(text) == CHOOSE i \in Colons(text) : \A j \in Colons(text) : j <= i

\* The host part: the host:port part up to its last ':'.
HostPart(address) ==
    LET hp == HostPortPart(address)
    IN  IF Colons(hp) = {} THEN hp ELSE SubSeq(hp, 1, LastColon(hp) - 1)

HasPortText(address) == Colons(HostPortPart(address)) # {}

\* The text after the last ':' of the host:port part.
PortText(address) ==
    LET hp == HostPortPart(address)
    IN  SubSeq(hp, LastColon(hp) + 1, Len(hp))

AllDigits(text) == \A i \in 1..Len(text) : text[i] \in Digit

\* The value of a decimal text, or 65536 when it is larger than that.
RECURSIVE PortValue(_, _)
PortValue(text, acc) ==
    IF text = <<>> THEN acc
    ELSE PortValue(Tail(text), Min(acc * 10 + DigitVal(Head(text)), MAX_PORT + 1))

\* C9: the parser fails on the empty string, on an empty host part, on a
\* host part containing whitespace, on a host part with no '.' whose first
\* character is not a digit, on port 0, on a port of 65536 or more, and on
\* a host:port part ending in ':'.
C9_ParserRejects ==
    AddressParsed =>
        LET host == HostPart(argv1)
            numeric == HasPortText(argv1) /\ PortText(argv1) # <<>>
                           /\ AllDigits(PortText(argv1))
        IN  (\/ argv1 = <<>>
             \/ host = <<>>
             \/ \E i \in 1..Len(host) : isspace(host[i])
             \/ (\A i \in 1..Len(host) : host[i] # ".") /\ host[1] \notin Digit
             \/ numeric /\ PortValue(PortText(argv1), 0) = 0
             \/ numeric /\ PortValue(PortText(argv1), 0) > MAX_PORT
             \/ HasPortText(argv1) /\ PortText(argv1) = <<>>)
            => parsed = InvalidAddress

\* C10: the parser fails on every address whose text after the last ':' of
\* the host:port part is not made entirely of decimal digits.
C10_NonNumericPortRejected ==
    AddressParsed /\ HasPortText(argv1) /\ ~AllDigits(PortText(argv1))
        => parsed = InvalidAddress

----------------------------------------------------------------------------
(* The classifier and the menu parser: claims C11 to C15, checked under    *)
(* SpecParse.                                                              *)

\* The view run_main_loop has chosen for the current node's body.
ViewChosen == pc \in {"menu", "text"}

CurrentSelector == nav[current_nav].selector

CurrentBody == nav[current_nav].page_content[1]

\* The types that are never a menu.
NonMenuTypes == {"0", "4", "5", "6", "9", "g", "I", "h"}

\* The first line of a body, cut at 1023 bytes.
FirstLineBytes(body) ==
    LET first_line == Split(body, "\n")[1]
    IN  SubSeq(first_line, 1, Min(Len(first_line), 1023))

\* The answer the classifier is to give for a selector and a present body.
MenuExpected(selector, body) ==
    \/ selector = <<>>
    \/ selector[1] = "1"
    \/ /\ selector[1] \notin NonMenuTypes
       /\ \E i \in 1..Len(FirstLineBytes(body)) : FirstLineBytes(body)[i] = TAB

\* C11: the classifier answers 'menu' exactly when the body is present and
\* either the selector is empty or starts with '1', or its first character
\* is not one of 0,4,5,6,9,g,I,h and a tab occurs in the first 1023 bytes
\* of the body's first line; an absent body is never a menu.
C11_ClassifierAnswer ==
    ViewChosen =>
        /\ pc = "menu" <=> MenuExpected(CurrentSelector, CurrentBody)
        /\ screen.view = pc
        /\ ~is_gopher_menu(CurrentSelector, NoContent)

\* C11 witness: a body of a search selector whose first line has its only
\* tab at byte 1024 is shown as text.
C11_Witness ==
    /\ pc = "text"
    /\ CurrentSelector = <<"7", "/", "s">>
    /\ CurrentBody = Rep("a", 1023) \o <<TAB, "\n", "b">>

\* A line without one trailing CR.
WithoutCR(line) ==
    IF line # <<>> /\ line[Len(line)] = "\r"
    THEN SubSeq(line, 1, Len(line) - 1)
    ELSE line

\* The lines of a body, each without its line end.
BodyLines(body) ==
    LET raw == Split(body, "\n") IN [k \in 1..Len(raw) |-> WithoutCR(raw[k])]

\* The lines that are to give an item: not blank, not the end-of-listing
\* marker, not shorter than 2 characters.
GivesItem(line) == ~(line = <<>> \/ line = <<".">> \/ Len(line) < 2)

ItemLines(body) == SelectSeq(BodyLines(body), GivesItem)

\* The fields of a line after its type character: display, selector, host
\* and port.
LineFields(line) == Split(Tail(line), TAB)

\* The display, selector and host fields are all on the line.
FieldsPresent(line) == Len(LineFields(line)) >= 3

\* The host of a line's item: the host field, or the current host when that
\* field is empty.
ResultingHost(line) ==
    IF LineFields(line)[3] = <<>> THEN nav[current_nav].host ELSE LineFields(line)[3]

\* C12: an item is selectable if and only if its type is one of 0,1,2,7,h,
\* its display, selector and host fields are all on the line and its
\* resulting host is neither "null.host" nor "error.host"; a line of type
\* 'i' or without a selector or host field gives a non-selectable item with
\* empty selector and host.
C12_SelectableRule ==
    pc = "menu" =>
        LET lines == ItemLines(CurrentBody)
        IN  /\ Len(gopher_items) = Len(lines)
            /\ \A k \in 1..Len(lines) :
                   LET line == lines[k]
                       item == gopher_items[k]
                   IN  /\ item.is_selectable <=>
                              /\ line[1] \in {"0", "1", "2", "7", "h"}
                              /\ FieldsPresent(line)
                              /\ ResultingHost(line) \notin {NULL_HOST, ERROR_HOST}
                       /\ line[1] = "i" \/ ~FieldsPresent(line) =>
                              /\ ~item.is_selectable
                              /\ item.selector = <<>>
                              /\ item.host = <<>>

\* C12 witness: the line "1Dead<TAB>/<TAB>null.host<TAB>70" has given a
\* non-selectable item of type 1, next to a selectable one.
C12_Witness ==
    /\ pc = "menu"
    /\ total_items = 2
    /\ gopher_items[1].type = "1"
    /\ gopher_items[1].host = NULL_HOST
    /\ ~gopher_items[1].is_selectable
    /\ gopher_items[2].is_selectable

\* C13: a blank line, a line that is "." and a line shorter than 2
\* characters give no item and no ordinal and do not stop the scan; a line
\* with missing fields gives a non-selectable item; no line ends the
\* session.
C13_SkippedLines ==
    ViewChosen /\ MenuExpected(CurrentSelector, CurrentBody) =>
        LET lines == ItemLines(CurrentBody)
        IN  /\ pc = "menu" /\ is_running /\ exit_status = 0 - 1
            /\ total_items = Len(lines)
            /\ Len(gopher_items) = Len(lines)
            /\ \A k \in 1..Len(lines) :
                   /\ gopher_items[k].type = lines[k][1]
                   /\ ~FieldsPresent(lines[k]) => ~gopher_items[k].is_selectable
            /\ selectable_items =
                   Cardinality({k \in 1..Len(lines) : gopher_items[k].is_selectable})

\* C13 witness: of an item line, two blank lines, the line "." and another
\* item line, the two item lines have given the items with ordinals 1, 2.
C13_Witness ==
    /\ pc = "menu"
    /\ Len(BodyLines(CurrentBody)) = 5
    /\ BodyLines(CurrentBody)[4] = <<".">>
    /\ total_items = 2
    /\ gopher_items[1].menu_index = 1
    /\ gopher_items[2].menu_index = 2

\* C14: the display text of every item neither begins nor ends with a
\* whitespace character.
C14_DisplayTrimmed ==
    pc = "menu" =>
        \A k \in 1..Len(gopher_items) :
            LET display == gopher_items[k].display_string
            IN  display # <<>> =>
                    ~isspace(display[1]) /\ ~isspace(display[Len(display)])

\* The items that have an ordinal.
HasOrdinal(item) == item.is_selectable

\* C15: the ordinals of the selectable items, in item order, are 1, 2, ...,
\* N with N the recorded number of selectable items, and every
\* non-selectable item has ordinal 0.
C15_OrdinalsContiguous ==
    pc = "menu" =>
        LET selectable == SelectSeq(gopher_items, HasOrdinal)
        IN  /\ Len(selectable) = selectable_items
            /\ \A k \in 1..Len(selectable) : selectable[k].menu_index = k
            /\ \A k \in 1..Len(gopher_items) :
                   ~gopher_items[k].is_selectable => gopher_items[k].menu_index = 0

\* C15 witness: a body of 51 items, all of them selectable.
C15_Witness ==
    /\ pc = "menu"
    /\ total_items = InitialCapacity + 1
    /\ selectable_items = InitialCapacity + 1
    /\ gopher_items[total_items].menu_index = InitialCapacity + 1

----------------------------------------------------------------------------
(* The keys of the views: claims C16 to C19, checked under SpecNav.        *)

\* A step of the menu view that has read Enter or Return.
EnterPressed ==
    /\ pc = "menu_read"
    /\ last_event'.input # <<>>
    /\ Head(last_event'.input) \in {KEY_ENTER, KEY_CARRIAGE_RETURN}

\* The text a prompt holds after the keys typed, Backspace removing the
\* last character.
RECURSIVE Edited(_)
Edited(typed) ==
    IF typed = <<>> THEN <<>>
    ELSE LET front == Edited(SubSeq(typed, 1, Len(typed) - 1))
             key   == typed[Len(typed)]
         IN  IF key = KEY_BACKSPACE
             THEN SubSeq(front, 1, Max(Len(front) - 1, 0))
             ELSE Append(front, key)

\* The keys typed in a prompt end with Enter or Return and hold no Escape.
Confirmed(typed) ==
    /\ typed # <<>>
    /\ typed[Len(typed)] \in {KEY_ENTER, KEY_CARRIAGE_RETURN}
    /\ \A i \in 1..Len(typed) : typed[i] # KEY_ESC

\* The text confirmed.
ConfirmedText(typed) == Edited(SubSeq(typed, 1, Len(typed) - 1))

\* The positions of the selectable items whose ordinal is the selected one.
SelectedPositions ==
    {i \in 1..Len(gopher_items) :
        gopher_items[i].is_selectable /\ gopher_items[i].menu_index = selected_index}

\* The step calls navigate_to with the location, and the new current node
\* holds it.
NavigatesTo(host, port, selector) ==
    /\ last_event'.call = "navigate_to"
    /\ last_event'.args = <<host, port, selector>>
    /\ nav'[current_nav'].host = host
    /\ nav'[current_nav'].port = port
    /\ nav'[current_nav'].selector = selector

Entered(typed) == IF Confirmed(typed) THEN ConfirmedText(typed) ELSE <<>>

\* C17: in the open prompt an address that does not parse leaves the history
\* alone and the session running, shows the error and presents the prompt
\* again; an address that parses gives one NavigateTo with the parsed
\* location and ends the prompt; empty input or Escape ends the prompt with
\* the chain and the current node unchanged.
C17_OpenPromptRepeats ==
    [][pc = "open" =>
        LET entered == Entered(last_event'.input)
        IN  /\ is_running' = is_running
            /\ exit_status' = exit_status
            /\ IF entered = <<>>
               THEN /\ UNCHANGED <<nav, current_nav>>
                    /\ pc' = "outer"
                    /\ last_event'.call = "none"
               ELSE \E r \in parse_gopher_address(entered) :
                        IF r.ok
                        THEN /\ NavigatesTo(r.host, r.port, r.selector)
                             /\ pc' = "outer"
                        ELSE /\ UNCHANGED <<nav, current_nav>>
                             /\ last_event'.call = "none"
                             /\ screen'.last_row = OpenUrlError
                             /\ pc' = "open"
    ]_vars

\* C17 witness: the prompt is presented again after an address that did not
\* parse, the history of two nodes as it was.
C17_Witness ==
    /\ pc = "open"
    /\ last_event.input = <<"b", "a", "d", KEY_ENTER>>
    /\ screen.last_row = OpenUrlError
    /\ nav[current_nav].prev # NULL
    /\ is_running

----------------------------------------------------------------------------
(* The ends of the process: claims C18 and C19, checked under Spec.        *)

\* run_main_loop is about to fetch the body of the current node.
FetchPending ==
    /\ pc = "outer_fetch"
    /\ nav[current_nav].page_content = NoContent

\* The step is the signal handler's: nothing of the program's own changes.
SignalStep ==
    UNCHANGED <<hist_vars, menu_vars, total_content_lines, is_running,
                terminal_size, screen, pc, exit_status, launch_vars>>

\* C18: a fetch of the current node's body that stores no body ends the
\* process with a non-zero exit status and the terminal restored; it is
\* not tried again, no view is drawn, and once the process has ended no
\* step follows.
C18_FetchFailureIsFatal ==
    [][/\ pc # "exited"
       /\ FetchPending /\ ~SignalStep /\ nav'[current_nav].page_content = NoContent =>
            /\ pc' = "exited"
            /\ exit_status' # EXIT_SUCCESS
            /\ screen' = restore_terminal
            /\ last_event'.input = <<>>
            /\ UNCHANGED <<nav, current_nav>>
    ]_vars

\* C18 witness: the process has ended on a failed fetch of the second node
\* of the history.
C18_Witness ==
    /\ pc = "exited"
    /\ exit_status = EXIT_FAILURE
    /\ screen = restore_terminal
    /\ nav[current_nav].page_content = NoContent
    /\ nav[current_nav].prev # NULL

\* A step of a view that has read 'q'.
QuitPressed ==
    /\ pc \in {"menu_read", "text_read"}
    /\ last_event'.input = <<"q">>

\* C19: 'q' in the menu view or the text view ends the loop: the view
\* returns with is_running false and the history as it was, and the one
\* step of the program that follows is the exit with status zero, with no
\* fetch, no history operation and no key read.
C19_QuitEndsLoop ==
    [][/\ QuitPressed =>
            /\ is_running' = FALSE
            /\ pc' = "outer"
            /\ last_event'.call = "none"
            /\ UNCHANGED <<hist_vars, exit_status>>
       /\ ~is_running /\ ~SignalStep =>
            /\ pc = "outer"
            /\ pc' = "exited"
            /\ exit_status' = EXIT_SUCCESS
            /\ last_event' = NoEvent
            /\ UNCHANGED <<hist_vars, menu_vars, is_running>>
    ]_vars

\* C19 witness: the process has ended with status zero after 'q', a text
\* body having been shown.
C19_Witness ==
    /\ pc = "exited"
    /\ exit_status = EXIT_SUCCESS
    /\ ~is_running
    /\ total_content_lines > 0
    /\ screen = restore_terminal

----------------------------------------------------------------------------
(* The resize notification: claim C20, checked under SpecLive.             *)

\* No resize arrives in the step: the terminal keeps its size and the flag
\* is not raised.
NoResize ==
    /\ tty_rows' = tty_rows
    /\ g_resize_pending' <= g_resize_pending

\* A loop tests the flag: run_main_loop or a view starts an iteration.
LoopCheck ==
    /\ pc \in {"outer", "menu", "text"}
    /\ pc' # pc

\* C20: no resize notification is lost: if from some moment on no resize
\* arrives and the loops keep testing the flag, then from some moment on
\* the dimensions the loop holds are the terminal's.
C20_NoResizeLost ==
    <>[][NoResize]_vars /\ []<><<LoopCheck>>_vars => <>[](terminal_size = tty_rows)

\* The resize that is lost: it arrived after the view had read the
\* dimensions and before it cleared the flag, and the flag is down while
\* the dimensions held are not the terminal's.
C20_LostResize ==
    /\ pc = "menu_read"
    /\ g_resize_pending = 0
    /\ terminal_size # tty_rows

----------------------------------------------------------------------------
(* The ports of the history: claim C21, checked under SpecPort.            *)

\* Menu lines whose port field is zero, above MAX_PORT, not a number, empty,
\* absent, and in range.
PortLines ==
    <<<<"1", "Z", TAB, "/", "z", TAB, "a", ".", "b", TAB, "0">>,
      <<"1", "B", TAB, "/", "b", TAB, "a", ".", "b", TAB, "7", "0", "0", "0", "0">>,
      <<"1", "N", TAB, "/", "n", TAB, "a", ".", "b", TAB, "x">>,
      <<"1", "E", TAB, "/", "e", TAB, "a", ".", "b", TAB>>,
      <<"1", "A", TAB, "/", "a", TAB, "a", ".", "b">>,
      <<"1", "G", TAB, "/", "g", TAB, "a", ".", "b", TAB, "7", "1">>>>

\* The menu a server answers with, one line after the other.
PortBody ==
    PortLines[1] \o CRLF \o PortLines[2] \o CRLF \o PortLines[3] \o CRLF
        \o PortLines[4] \o CRLF \o PortLines[5] \o CRLF \o PortLines[6] \o CRLF

\* The program launched on a host whose server answers every request with
\* PortBody, the user moving the selection and activating items.
InitPort == InitWith({HOST_AB}, {MaxRows})

NextPort ==
    \/ RunMainLoop
    \/ FetchContent({PortBody})
    \/ EnterView
    \/ MenuLoop
    \/ MenuArrow
    \/ MenuEnter(MaxNodes)

SpecPort == InitPort /\ [][NextPort]_vars

\* C21: the port of every node of the history is within 1..65535.
C21_NodePortsInRange ==
    \A n \in DOMAIN nav : nav[n].port \in 1..MAX_PORT

\* A node made by activating the menu line whose port field is 70000.
C21_PortAboveMax ==
    /\ last_event.call = "navigate_to"
    /\ nav[current_nav].selector = <<"/", "b">>
    /\ nav[current_nav].port > MAX_PORT

----------------------------------------------------------------------------
(* The cached bodies: claims C22, C23 and C28, checked under SpecNav.      *)

\* The node has a cached body.
Cached(heap, n) == heap[n].page_content # NoContent

\* The nodes that get a body in the step: the bodies fetched.
Fetched ==
    {n \in DOMAIN nav' : Cached(nav', n) /\ (n \notin DOMAIN nav \/ ~Cached(nav, n))}

\* run_main_loop has tested the flag and looks at the current node's body.
OuterIteration == pc = "outer_fetch"

\* C22: a body is fetched exactly when an iteration of run_main_loop finds
\* the current node without one: the iteration then fetches that node's
\* body and nothing else, or the process ends; with a body cached it enters
\* the view with no fetch. NavigateTo and reload leave the current node
\* without a body for the next iteration; Back and Forward land on a node
\* whose body is cached.
C22_FetchWhenNotCached ==
    [][/\ Fetched # {} =>
            OuterIteration /\ ~Cached(nav, current_nav) /\ Fetched = {current_nav}
       /\ OuterIteration /\ ~Cached(nav, current_nav) =>
            \/ Fetched = {current_nav} /\ pc' = "outer_fetch"
            \/ pc' = "exited" /\ exit_status' = EXIT_FAILURE
       /\ OuterIteration /\ Cached(nav, current_nav) =>
            nav' = nav /\ pc' \in {"menu", "text"}
       /\ last_event'.call \in {"navigate_to", "reload"} =>
            ~Cached(nav', current_nav') /\ pc' = "outer"
       /\ last_event'.call \in {"navigate_back", "navigate_forward"} =>
            Cached(nav', current_nav') /\ Fetched = {} /\ pc' = "outer"
    ]_vars

\* C22 witness: Back has landed on the node visited before, its body still
\* cached.
C22_Witness ==
    /\ last_event.call = "navigate_back"
    /\ pc = "outer"
    /\ nav[current_nav].next # NULL
    /\ Cached(nav, current_nav)
    /\ Cached(nav, nav[current_nav].next)

\* C23: reload in a view discards the body of the current node and nothing
\* else: the nodes, their links and Locations, the current pointer and the
\* body of every other node are unchanged.
C23_ReloadDiscardsCurrentOnly ==
    [][last_event'.call = "reload" =>
        /\ pc \in {"menu_read", "text_read"}
        /\ current_nav' = current_nav
        /\ DOMAIN nav' = DOMAIN nav
        /\ \A n \in DOMAIN nav :
               nav'[n] = IF n = current_nav
                         THEN [nav[n] EXCEPT !.page_content = NoContent]
                         ELSE nav[n]
    ]_vars

\* C23 witness: a text has been reloaded, the menu it was reached from still
\* cached.
C23_Witness ==
    /\ last_event.call = "reload"
    /\ screen.view = "text"
    /\ ~Cached(nav, current_nav)
    /\ nav[current_nav].prev # NULL
    /\ Cached(nav, nav[current_nav].prev)

\* C28: wherever a view renders or reads a key, its prompts included, the
\* current node has a cached body; and in every state every node other than
\* the current one has a cached body.
C28_BodiesCached ==
    /\ pc \in {"menu", "menu_clear", "menu_read", "text", "text_clear", "text_read",
               "open"} => Cached(nav, current_nav)
    /\ \A n \in DOMAIN nav \ {current_nav} : Cached(nav, n)

\* C28 witness: a chain of three nodes, the middle one current and being
\* fetched again after a reload, the other two with their bodies.
C28_Witness ==
    /\ pc = "outer_fetch"
    /\ ~Cached(nav, current_nav)
    /\ nav[current_nav].prev # NULL
    /\ nav[current_nav].next # NULL
    /\ Cached(nav, nav[current_nav].prev)
    /\ Cached(nav, nav[current_nav].next)

----------------------------------------------------------------------------
(* The view and the classifier: claim C24, checked under SpecView.         *)

\* The length of the histories where the server's answers vary.
SwitchNodes == 2

\* An address whose selector does not decide the view: the body does.
SEARCH_ADDRESS == <<"a", ".", "b", "/", "7", "/", "s">>

\* The program launched on SEARCH_ADDRESS with a terminal that keeps its
\* size, the server answering each request with a menu or with a text.
InitView == InitWith({SEARCH_ADDRESS}, {MaxRows})

NextView ==
    \/ RunMainLoop
    \/ FetchContent(ViewBodies)
    \/ FetchFailure
    \/ EnterView
    \/ MenuEnter(SwitchNodes)
    \/ OpenPrompt(SwitchNodes)
    \/ ViewStep

SpecView == InitView /\ [][NextView]_vars

\* The places of the menu view and of the text view.
MenuPlaces == {"menu", "menu_clear", "menu_read"}
TextPlaces == {"text", "text_clear", "text_read"}

\* C24: the view shown is the one the classifier selects for the current
\* node: wherever the menu view renders, the current node's body classifies
\* as a menu, the screen shows the menu and the items are those parsed from
\* that body; wherever the text view renders, the body does not classify as
\* a menu and the screen shows the text of that body.
C24_ViewIsClassifiers ==
    LET node == nav[current_nav]
    IN  /\ pc \in MenuPlaces =>
               /\ Cached(nav, current_nav)
               /\ is_gopher_menu(node.selector, node.page_content)
               /\ screen.view = "menu"
               /\ screen.total = total_items
               /\ \E r \in process_gopher_response(node.page_content[1],
                                                   node.host, node.port) :
                      /\ gopher_items = r.items
                      /\ total_items = Len(r.items)
                      /\ selectable_items = r.selectable_items
        /\ pc \in TextPlaces =>
               /\ Cached(nav, current_nav)
               /\ ~is_gopher_menu(node.selector, node.page_content)
               /\ screen.view = "text"
               /\ screen.total = calculate_text_lines(node.page_content[1])
               /\ total_content_lines = calculate_text_lines(node.page_content[1])

\* C24 witness: the node shown as a menu before the reload is shown as a
\* text after it, the items of the menu still in the array.
C24_Witness ==
    /\ pc = "text_read"
    /\ nav[current_nav].selector[1] = "7"
    /\ nav[current_nav].page_content = Content(TextBody)
    /\ gopher_items # <<>>
    /\ screen.view = "text"

----------------------------------------------------------------------------
(* The menu window: claims C25 to C27, checked under Spec.                 *)

\* The array indices, from 0, of the selectable items with the given
\* ordinal.
IndicesOf(items, ordinal) ==
    {i \in 0..(Len(items) - 1) :
        items[i + 1].is_selectable /\ items[i + 1].menu_index = ordinal}

\* The array index i lies in the window of the given offset and height.
InWindow(i, offset, viewable_rows) ==
    offset <= i /\ i < offset + viewable_rows

\* C25: in the menu view with viewable_rows >= 1 and a selectable item,
\* right after Up, Down, PageUp or PageDown the array index i of the
\* selected item lies in the window; the offset is unchanged when i was
\* inside the window already, is i when i was before it, and is
\* i - viewable_rows + 1 when i was at or past its end.
C25_SelectionScrolledIntoWindow ==
    [][LET viewable_rows == Max(terminal_size - 4, 0)
       IN  /\ viewable_rows >= 1
           /\ selectable_items >= 1
           /\ \E key \in ScrollKeys : MenuKey(key)
           => /\ Cardinality(IndicesOf(gopher_items, selected_index')) = 1
              /\ LET i == CHOOSE j \in IndicesOf(gopher_items, selected_index') : TRUE
                 IN  /\ InWindow(i, scroll_offset', viewable_rows)
                     /\ scroll_offset' =
                            IF InWindow(i, scroll_offset, viewable_rows)
                            THEN scroll_offset
                            ELSE IF i < scroll_offset THEN i
                            ELSE i - viewable_rows + 1
    ]_vars

\* C25 witness: Down has moved the selection past the end of a window of two
\* rows, and the offset has followed it.
C25_Witness ==
    /\ last_event.input = Escape(KEY_DOWN)
    /\ terminal_size = MaxRows
    /\ selectable_items = 3
    /\ selected_index = 3
    /\ scroll_offset = 4 - (MaxRows - 4) + 1

\* C27: at every render of the menu view with a selectable item and
\* viewable_rows >= 1 the selected item is inside the rendered window and
\* the offset rendered is within 0..number of items.
C27_RenderedSelectionInWindow ==
    LET viewable_rows == Max(screen.ws_row - 4, 0)
    IN  /\ InMenuView
        /\ screen.view = "menu"
        /\ selectable_items >= 1
        /\ viewable_rows >= 1
        => /\ \E i \in IndicesOf(gopher_items, screen.selected) :
                  InWindow(i, screen.scroll, viewable_rows)
           /\ screen.scroll \in 0..screen.total

\* A menu rendered on entering the view with the selected item, the first
\* selectable one, below the window: three informational lines come first.
C27_SelectedBelowWindow ==
    /\ pc = "menu"
    /\ screen.view = "menu"
    /\ screen.ws_row = MaxRows
    /\ screen.scroll = 0
    /\ screen.selected = 1
    /\ IndicesOf(gopher_items, 1) = {3}

----------------------------------------------------------------------------
(* The keys that neither navigate nor reload: claim C26, checked under     *)
(* SpecKeys.                                                               *)

\* The program with a terminal that keeps its size and a user who never
\* reloads: every key but 'r'.
InitKeys == InitWith(NavLaunchArgs, {MaxRows})

NextKeys ==
    \/ RunMainLoop
    \/ FetchContent(NavBodies)
    \/ EnterView
    \/ MenuLoop
    \/ MenuArrow
    \/ MenuEnter(MaxNodes)
    \/ KeyBack("menu_read")
    \/ KeyForward("menu_read")
    \/ KeyOpen("menu_read")
    \/ MenuAbout
    \/ MenuOtherKey
    \/ OpenPrompt(MaxNodes)
    \/ TextLoop
    \/ TextArrow
    \/ KeyBack("text_read")
    \/ KeyForward("text_read")
    \/ KeyOpen("text_read")
    \/ TextAbout
    \/ TextOtherKey

SpecKeys == InitKeys /\ [][NextKeys]_vars

\* A step that has read a key, or the keys of a prompt, and has called
\* nothing that moved the current node.
QuietKey ==
    /\ pc \in {"menu_read", "text_read", "open"}
    /\ last_event'.input # <<>>
    /\ Head(last_event'.input) # KEY_ESC \/ pc = "open"
    /\ last_event'.call # "navigate_to"
    /\ current_nav' = current_nav

\* run_main_loop is on its way back to the view.
BackToView == pc \in {"outer", "outer_fetch"}

\* C26: a key that neither navigates nor reloads leaves the displayed state
\* as it was: the key's own step and the steps that bring the view back
\* leave the chain, the current node, the selected ordinal, the menu scroll
\* offset and the text scroll line unchanged (a body fetched for a new node
\* apart).
C26_QuietKeysKeepDisplay ==
    [][/\ QuietKey => UNCHANGED hist_vars
       /\ BackToView /\ pc' # "exited" =>
            /\ UNCHANGED <<current_nav, selected_index, scroll_offset, text_scroll_line>>
            /\ DOMAIN nav' = DOMAIN nav
            /\ Links(nav') = Links(nav)
    ]_vars

\* The selection lost: the view is back with the first ordinal selected,
\* its item above the window, the offset being the one of the selection
\* before the key.
C26_SelectionLost ==
    /\ pc = "menu_read"
    /\ terminal_size = MaxRows
    /\ selected_index = 1
    /\ scroll_offset > 1

----------------------------------------------------------------------------
(* The search prompt: claims C29 and C30, checked under SpecSearch.        *)

\* What the user types in the search prompt: a query with the letter 'q'
\* in it, a query the input ends in the middle of, an edited query with a
\* tab in it, a query given up with Escape, and a query of three letters.
PromptTyped ==
    {<<"a", "q", "b", KEY_ENTER>>,
     <<"a", "b">>,
     <<"a", KEY_BACKSPACE, "b", TAB, KEY_CARRIAGE_RETURN>>,
     <<"a", KEY_ESC>>,
     <<"a", "b", "c", KEY_ENTER>>}

\* A selector that leaves room for one tab and one character in a node.
LongSelector == <<"7", "/">> \o Rep("s", MAX_SELECTOR_LENGTH - 5)

\* A menu of two search items, the second with the long selector.
SearchBody ==
    <<"7", "F", TAB, "7", "/", "s", TAB, "a", ".", "b", TAB, "7", "0">> \o CRLF
        \o <<"7", "L", TAB>> \o LongSelector \o <<TAB, "a", ".", "b", TAB, "7", "0">>
        \o CRLF

\* The program launched on a host whose server answers every request with
\* SearchBody, the user moving the selection and searching.
InitSearch == InitWith({HOST_AB}, {MaxRows})

NextSearch ==
    \/ RunMainLoop
    \/ FetchContent({SearchBody})
    \/ EnterView
    \/ MenuLoop
    \/ MenuArrow
    \/ handle_menu_action_enter(MaxNodes, PromptTyped)

SpecSearch == InitSearch /\ [][NextSearch]_vars

\* Enter is pressed on a search item.
SearchPrompted ==
    /\ EnterPressed
    /\ \E i \in SelectedPositions : gopher_items[i].type = "7"

\* The search item Enter is pressed on.
SearchItem == gopher_items[CHOOSE i \in SelectedPositions : gopher_items[i].type = "7"]

\* The position of the first Enter, Return or Escape typed, 0 without one.
PromptEnd(typed) ==
    LET ends == {i \in 1..Len(typed) :
                    typed[i] \in {KEY_ENTER, KEY_CARRIAGE_RETURN, KEY_ESC}}
    IN  IF ends = {} THEN 0 ELSE CHOOSE i \in ends : \A j \in ends : i <= j

\* The printable characters typed, less those removed by Backspace.
RECURSIVE TypedText(_)
TypedText(typed) ==
    IF typed = <<>> THEN <<>>
    ELSE LET front == TypedText(SubSeq(typed, 1, Len(typed) - 1))
             key   == typed[Len(typed)]
         IN  IF key \in {KEY_BACKSPACE, "BS"}
             THEN SubSeq(front, 1, Max(Len(front) - 1, 0))
             ELSE IF isprint(key) THEN Append(front, key) ELSE front

\* C29: the search prompt ends only when Enter or Escape is read: Enter
\* submits the printable characters typed before it, less those removed by
\* Backspace; Escape cancels without navigating; no other character, the
\* letter 'q' included, and no failed read ends the prompt, submits a
\* partial query or cancels it.
C29_PromptEndsOnEnterOrEscape ==
    [][SearchPrompted =>
        LET typed == Tail(last_event'.input)
            end   == PromptEnd(typed)
        IN  /\ end # 0
            /\ IF typed[end] = KEY_ESC \/ TypedText(SubSeq(typed, 1, end - 1)) = <<>>
               THEN UNCHANGED <<nav, current_nav>> /\ last_event'.call = "none"
               ELSE /\ last_event'.call = "navigate_to"
                    /\ last_event'.args =
                           <<SearchItem.host, SearchItem.port,
                             SearchItem.selector \o <<TAB>>
                                 \o TypedText(SubSeq(typed, 1, end - 1))>>
    ]_vars

\* C29 witness: "a", "q", "b" and Enter typed in the prompt, and the search
\* is given up at the 'q'.
C29_QuitLetterCancels ==
    /\ last_event.input = <<KEY_ENTER, "a", "q", "b", KEY_ENTER>>
    /\ last_event.call = "none"
    /\ pc = "outer"

\* The query the prompt hands over after the keys typed.
PromptQuery(typed) == prompt_read(typed, 1, <<>>, MAX_SELECTOR_LENGTH - 1, {KEY_ESC, "q"})

\* C30: a search submission that navigates gives the new node the item's
\* selector, one tab and the query, with nothing cut off; when the three do
\* not fit in MAX_SELECTOR_LENGTH - 1 bytes the error is shown and the
\* history is unchanged.
C30_SearchSelectorWhole ==
    [][SearchPrompted /\ PromptQuery(Tail(last_event'.input)) # <<>> =>
        LET combined == SearchItem.selector \o <<TAB>>
                            \o PromptQuery(Tail(last_event'.input))
        IN  IF Len(combined) <= MAX_SELECTOR_LENGTH - 1
            THEN NavigatesTo(SearchItem.host, SearchItem.port, combined)
            ELSE /\ UNCHANGED <<nav, current_nav>>
                 /\ screen'.last_row = SearchQueryTooLong
    ]_vars

\* C30 witness: the item's selector, the tab and the query typed take more
\* than MAX_SELECTOR_LENGTH - 1 bytes, no error is shown, and the new node
\* holds the first MAX_SELECTOR_LENGTH - 1 of them.
C30_QueryCutOff ==
    /\ last_event.call = "navigate_to"
    /\ Len(last_event.args[3]) > MAX_SELECTOR_LENGTH - 1
    /\ nav[current_nav].selector = SubSeq(last_event.args[3], 1, MAX_SELECTOR_LENGTH - 1)
    /\ nav[current_nav].selector # last_event.args[3]
    /\ screen.last_row # SearchQueryTooLong

----------------------------------------------------------------------------
(* The scroll line of the text view: claim C31, checked under Spec.        *)

\* The highest scroll line of a text of total_lines lines in a window of
\* viewable_rows rows.
LastScrollLine(total_lines, viewable_rows) == Max(total_lines - viewable_rows, 0)

\* The text view reads an escape sequence that ends with key.
TextKey(key) ==
    /\ pc = "text_read"
    /\ last_event'.input = <<KEY_ESC, "[", key>>

\* C31: whenever the text view reads a key, the scroll line lies between 0
\* and max(total_lines - viewable_rows, 0), total_lines being the lines of
\* the current body; so Up moves up by exactly one line, and not below 0,
\* whatever was pressed before, and PageUp moves up by viewable_rows lines,
\* and not below 0.
C31_NoOverscrollAtKeyRead ==
    /\ [](pc = "text_read" =>
            /\ total_content_lines = calculate_text_lines(nav[current_nav].page_content[1])
            /\ text_scroll_line \in
                   0..LastScrollLine(total_content_lines, TextViewableRows(terminal_size)))
    /\ [][/\ TextKey(KEY_UP) => text_scroll_line' = Max(text_scroll_line - 1, 0)
          /\ TextKey(KEY_PGUP) =>
                 text_scroll_line' =
                     Max(text_scroll_line - TextViewableRows(terminal_size), 0)
         ]_vars

\* C31 witness: Down or PageDown was pressed at the bottom of a text longer
\* than the window, the text was drawn from a line past the last scroll
\* line, and the next key is read with the scroll line back on it.
C31_Witness ==
    /\ pc = "text_read"
    /\ text_scroll_line = total_content_lines - TextViewableRows(terminal_size)
    /\ text_scroll_line > 0
    /\ screen.view = "text"
    /\ screen.scroll > text_scroll_line

----------------------------------------------------------------------------
(* The resize at the top of the views' loops: claim C32, checked under     *)
(* Spec.                                                                   *)

\* A view's loop starts an iteration and goes on to another place.
IterationStarts == pc \in {"menu", "text"} /\ pc' # pc

\* C32: an iteration of a view's loop that starts with a resize pending
\* queries the size of the terminal and draws the view with the size
\* queried; it reads no key and leaves the history, the selection and the
\* running flag alone; a key is read only by an iteration that starts with
\* no resize pending, so the iteration after the flag is cleared starts at
\* the top of the loop again.
C32_ResizeBeforeKey ==
    [][/\ IterationStarts /\ g_resize_pending # 0 =>
             /\ terminal_size' = tty_rows
             /\ screen'.ws_row = terminal_size'
             /\ screen'.view = (IF pc = "menu" THEN "menu" ELSE "text")
             /\ pc' = (IF pc = "menu" THEN "menu_clear" ELSE "text_clear")
             /\ last_event'.input = <<>>
             /\ UNCHANGED <<nav, current_nav, selected_index, scroll_offset,
                            is_running>>
       /\ pc' \in {"menu_read", "text_read"} /\ pc' # pc =>
             /\ IterationStarts
             /\ g_resize_pending = 0
       /\ pc \in {"menu_clear", "text_clear"} /\ pc' # pc =>
             /\ pc' = (IF pc = "menu_clear" THEN "menu" ELSE "text")
             /\ last_event'.input = <<>>
      ]_vars

\* C32 witness: the text view has drawn the text for the terminal's new
\* size, smaller than the largest, and has not cleared the flag yet.
C32_Witness ==
    /\ pc = "text_clear"
    /\ g_resize_pending # 0
    /\ terminal_size = tty_rows
    /\ terminal_size # MaxRows
    /\ screen.view = "text"
    /\ screen.ws_row = terminal_size

----------------------------------------------------------------------------
(* The attributes of the terminal: claim C33, checked under SpecExit.      *)

\* The process from the start of main to its end, for each argument: the
\* server answers or fails, the user scrolls or quits, and SIGINT is
\* delivered at any moment after the handler is installed.
NextExit ==
    \/ Main
    \/ handle_sigint_signal
    \/ RunMainLoop
    \/ FetchContent(ViewBodies)
    \/ FetchFailure
    \/ EnterView
    \/ MenuLoop
    \/ MenuArrow
    \/ KeyQuit("menu_read")
    \/ TextLoop
    \/ TextArrow
    \/ KeyQuit("text_read")

SpecExit == InitAddr /\ [][NextExit]_vars

\* The process has ended or will do nothing more.
Ended == pc \in {"exited", "blocked"}

\* C33: the terminal is in raw mode only with a launch address that
\* parsed; every step that ends a process in raw mode, whether by 'q', by a
\* fatal error or by SIGINT, leaves the terminal with its original
\* attributes, and they stay; with the help option, the version option or
\* an address that does not parse the terminal is never in raw mode, no
\* node is created and the fetch, the only place a connection is opened, is
\* never reached.
C33_RawModeUndoneAtExit ==
    /\ [](termios = "raw" => parsed.ok /\ argv1 \notin OptionArgs)
    /\ [](Ended => termios = "original")
    /\ [](argv1 \in OptionArgs \/ (pc # "main" /\ ~parsed.ok) =>
            /\ termios = "original"
            /\ pc \in {"main", "exited"}
            /\ current_nav = NULL
            /\ nav = <<>>
            /\ screen = BlankScreen)
    /\ [][/\ termios = "raw" /\ Ended' =>
                termios' = "original" /\ screen' = restore_terminal
          /\ Ended => FALSE
         ]_vars

\* C33 witness: the process was ended by SIGINT while a menu was shown: the
\* running flag is still set, the exit status is that of the handler, and
\* the terminal has its original attributes.
C33_Witness ==
    /\ pc = "exited"
    /\ exit_status = EXIT_SUCCESS
    /\ is_running
    /\ total_items > 0
    /\ termios = "original"
    /\ screen = restore_terminal

====
